---- MODULE Spec2Model ----
(***************************************************************************)
(* Container Session Orchestrator of the panel backend.                    *)
(*                                                                         *)
(*   SpecConsole : the /console namespace of websocket/console.js: the     *)
(*                 activeSessions registry, ConsoleSession.start/cleanup/  *)
(*                 sendCommand/sendInput and the socket handlers, one      *)
(*                 step per await.                                         *)
(*   Spec        : the container lifecycle routes of routes/containers.js  *)
(*                 (create, update, start, stop, restart, delete, the      *)
(*                 reconciling reads) and the admin force delete, against  *)
(*                 a datastore and a container engine, one step per await. *)
(*   SpecStats   : the /stats namespace: subscriptions and polling timers. *)
(*   SpecProcess : the console namespace under the process's signal and    *)
(*                 error handlers of server.js.                            *)
(*   SpecPersisted, SpecStartStop : the routes over a record that is       *)
(*                 already persisted and linked to an engine object.       *)
(*   SpecStream, SpecCommands, SpecResize : the console namespace with the *)
(*                 exec stream's data, long commands, and resizes.         *)
(*   SpecSamples, SpecHistory, SpecMemory : the stats arithmetic, the      *)
(*                 command history and parseMemory on their own.           *)
(***************************************************************************)
EXTENDS Integers, Sequences, FiniteSets, Bags, TLC

\* ------------------------------------------------------------------ bounds
\* ConsoleSession objects ever constructed
MaxSessions == 2
\* writes a client makes to one exec stream
MaxWrites == 1
\* handler-level error replies on one socket
MaxSockErrors == 1
\* container records ever inserted
MaxRecords == 2
\* engine container objects ever created
MaxEngineObjects == 2
\* HTTP requests in flight at once
MaxConcurrent == 2
\* HTTP requests admitted in all
MaxRequests == 3
\* stats:subscribe messages received on one stats socket
MaxSubscribes == 2
\* firings of one polling timer
MaxTicks == 2
MaxChunks == 2
MaxAccepted == 104
MaxResizeFailures == 1
\* characters of a memory setting
MaxMemoryLen == 3

\* ------------------------------------------------------------ value domains
NULL == "null"
Users == {"u1", "u2"}
Roles == {"ADMIN", "MEMBER"}
Sockets == {"s1"}
\* container record ids, in order of insertion; the console's records are 1,
\* of the member u1 (when it exists), and 2, of the administrator u2
ContainerIds == 1..MaxRecords
\* engine-assigned container ids, in order of creation
DockerIds == 1..MaxEngineObjects
\* request slots: the handlers that can be suspended at an await at once
Requests == 1..MaxConcurrent
Names == {"a", "b"}
\* a missing request field, an absent record id, a null dockerId
NoId == 0
\* the limit of command.substring(0, 1000)
CommandLimit == 1000

\* a string, as the runs of its characters: <<character, count>>, no two
\* neighbouring runs of the same character
Run(ch, n) == <<ch, n>>

\* String.prototype.length
Length(text) ==
  LET RECURSIVE sum(_)
      sum(i) == IF i = 0 THEN 0 ELSE text[i][2] + sum(i - 1)
  IN sum(Len(text))

\* a + b
Concat(a, b) ==
  IF a = << >> THEN b
  ELSE IF b = << >> THEN a
  ELSE IF a[Len(a)][1] = b[1][1]
    THEN SubSeq(a, 1, Len(a) - 1) \o <<Run(b[1][1], a[Len(a)][2] + b[1][2])>> \o Tail(b)
  ELSE a \o b

\* String.prototype.substring(0, end)
RECURSIVE substring(_, _)
substring(text, end) ==
  IF text = << >> \/ end <= 0 THEN << >>
  ELSE IF text[1][2] >= end THEN <<Run(text[1][1], end)>>
  ELSE <<text[1]>> \o substring(Tail(text), end - text[1][2])

\* '\n'
Newline == <<Run("LF", 1)>>

\* the texts a client sends: "ls", and texts of 1000 and 1001 characters
Ls == <<Run("l", 1), Run("s", 1)>>
Xs(n) == <<Run("x", n)>>
Commands == {Ls}

\* a command or input field that is not a string (or is missing)
NotAString == <<Run("undefined", 0)>>

\* typeof v === 'string'
IsString(v) == v # NotAString
LongCommands == {Ls, Xs(CommandLimit), Xs(CommandLimit + 1)}
StatsSockets == {"t1"}
\* the intervals a client asks for, around the two limits of the clamp
Intervals == {-1, 0, 500, 999, 1000, 1001, 9999, 10000, 10001, 15000}

VARIABLES
  role,            \* datastore: user id -> role (prisma.user)
  container,       \* datastore: container id -> record or NoRecord (prisma.container)
  containerLog,    \* datastore: bag of container log rows (prisma.containerLog)
  socketState,     \* socket -> "new" | "open" | "closed"
  socketUser,      \* socket -> socket.user set by authenticateSocket
  activeSessions,  \* the registry: socket.id -> index of its ConsoleSession, or 0
  sessions,        \* every ConsoleSession constructed so far, in order
  sockErrors,      \* socket -> console:error replies emitted by the handlers themselves
  engine,          \* container engine: docker id -> "absent" | "created" | "running" | "exited" | "removed"
  requests,        \* request slot -> the HTTP handler suspended in it, or its last response
  inserted,        \* container records inserted so far (ids are never reused)
  admitted,        \* HTTP requests admitted so far
  statsSockets,    \* /stats socket -> its state, socket.user and statsInterval
  timers,          \* every timer setInterval has installed for /stats, in order
  subscribes,      \* the stats:subscribe handlers suspended at their container lookup
  sample,          \* the stats object container.stats({ stream: false }) resolved with
  report,          \* what the stats computation returned for it
  accepted,        \* the commands one session's sendCommand has accepted, in order
  history,         \* that session's commandHistory
  server,          \* the service process: "listening" | "closing" | how it exited
  memoryArg,       \* the memory setting handed to parseMemory
  memoryBytes      \* what parseMemory returned for it

vars == <<role, container, containerLog, socketState, socketUser,
          activeSessions, sessions, sockErrors, engine, requests, inserted, admitted,
          statsSockets, timers, subscribes, sample, report, accepted, history,
          server, memoryArg, memoryBytes>>

\* the state of the /console namespace, and the state only the routes touch
consoleOnly == <<socketState, socketUser, activeSessions, sessions, sockErrors>>
routeOnly == <<engine, requests, inserted, admitted>>
statsOnly == <<statsSockets, timers, subscribes>>

\* the state of the computations that are followed on their own
unitOnly == <<sample, report, accepted, history, server, memoryArg, memoryBytes>>

NoSession == 0

\* sendCommand keeps the last 100 commands
HistoryCap == 100

\* ------------------------------------------------------------- datastore
ContainerRecord(name, owner, dockerId, status) ==
  [name |-> name, ownerId |-> owner, dockerId |-> dockerId, status |-> status]

\* what findUnique returns when there is no such record
NoRecord == ContainerRecord(NULL, NULL, NoId, NULL)

\* the states the member's container can be in when a console request
\* arrives: no record, provisional (no engine id), running, stopped
ConsoleContainerStates ==
  { NoRecord,
    ContainerRecord("a", "u1", NoId, "CREATED"),
    ContainerRecord("a", "u1", 1, "RUNNING"),
    ContainerRecord("a", "u1", 1, "STOPPED") }

\* a row the handlers write for an event: a fixed command word (one run),
\* an output text and exit code 0; `by` tells the writers apart
LogRow(containerId, command, by) ==
  [containerId |-> containerId, command |-> <<Run(command, 1)>>, by |-> by,
   output |-> "text", exitCode |-> "0"]

\* the row sendCommand writes with the whole command
CommandRowWhole(containerId, command, by) ==
  [containerId |-> containerId, command |-> command, by |-> by,
   output |-> NULL, exitCode |-> NULL]

\* the row sendCommand writes: the command cut to 1000 characters, output
\* null, exitCode null
CommandRow(containerId, command, by) ==
  [containerId |-> containerId, command |-> substring(command, CommandLimit), by |-> by,
   output |-> NULL, exitCode |-> NULL]

LogCount(row) == IF row \in BagToSet(containerLog) THEN containerLog[row] ELSE 0

\* ------------------------------------------------------------- ConsoleSession
\* constructor(socket, containerId, userId)
NewSession(sock, containerId, userId) ==
  [ socket |-> sock, containerId |-> containerId, userId |-> userId,
    dockerExec |-> FALSE,        \* this.dockerExec # null
    stream |-> FALSE,            \* this.stream # null
    isActive |-> FALSE,
    commandHistory |-> << >>,
    pc |-> "findContainer",      \* where start() is suspended
    found |-> NoRecord,            \* start()'s local `container`
    streamObj |-> "none",        \* the exec stream start() obtained: none | open | destroyed
    streamIn |-> << >>,          \* what was written to that stream
    streamOut |-> << >>,         \* the chunks that stream emitted as 'data'
    outputs |-> << >>,           \* the data of the console:output messages emitted
    tty |-> [h |-> 0, w |-> 0],  \* the size dockerExec.resize last set
    resizeFailures |-> << >>,    \* rejected dockerExec.resize calls (logged), each
                                 \* with the number of stream writes made before it
    execCalls |-> 0,             \* containerManager.execCommand calls made by start()
    cleanups |-> 0,              \* invocations of cleanup()
    errors |-> 0,                \* console:error emitted by this session
    connected |-> 0,             \* console:connected emitted
    disconnected |-> 0 ]         \* console:disconnected emitted

\* the ownership check with its owner comparison inverted
AccessDeniedToOwner(userRole, ownerId, userId) ==
  userRole # "ADMIN" /\ ownerId = userId

\* the ownership check of start(): user.role !== 'ADMIN' && ownerId !== userId
AccessDenied(userRole, ownerId, userId) ==
  userRole # "ADMIN" /\ ownerId # userId

\* cleanup(): the record after its synchronous part
CleanedUp(sess) ==
  [sess EXCEPT !.isActive = FALSE,
               !.streamObj = IF sess.stream THEN "destroyed" ELSE @,
               !.stream = FALSE,
               !.dockerExec = FALSE,
               !.cleanups = @ + 1]

\* cleanup() of session s, whose record in this step is sess. Its
\* CONSOLE_DISCONNECT row is written by every invocation (the datastore is
\* taken to accept the row; a rejected write is caught and only logged).
cleanup(s, sess) ==
  /\ sessions' = [sessions EXCEPT ![s] = CleanedUp(sess)]
  /\ activeSessions' = [activeSessions EXCEPT ![sess.socket] = NoSession]
  /\ containerLog' = containerLog (+) SetToBag({LogRow(sess.containerId, "CONSOLE_DISCONNECT", s)})

\* the catch block of start() with cleanup() left out
StartFailedNoCleanup(s) ==
  /\ sessions' = [sessions EXCEPT ![s].errors = @ + 1, ![s].pc = "done"]
  /\ UNCHANGED <<activeSessions, containerLog>>

\* the catch block of start(): console:error, then cleanup()
StartFailed(s) ==
  cleanup(s, [sessions[s] EXCEPT !.errors = @ + 1, !.pc = "done"])

\* ------------------------------------------------------------- socket layer
\* authenticateSocket + the namespace's connection event
Handshake(sock, u) ==
  /\ socketState[sock] = "new"
  /\ socketState' = [socketState EXCEPT ![sock] = "open"]
  /\ socketUser' = [socketUser EXCEPT ![sock] = [id |-> u, role |-> role[u]]]
  /\ UNCHANGED <<role, container, containerLog, activeSessions, sessions, sockErrors>>
  /\ UNCHANGED <<routeOnly, statsOnly, unitOnly>>

\* socket.on('console:connect')
ConsoleConnect(sock, containerId) ==
  /\ socketState[sock] = "open"
  /\ IF containerId = NoId \/ activeSessions[sock] # NoSession
       THEN /\ sockErrors[sock] < MaxSockErrors
            /\ sockErrors' = [sockErrors EXCEPT ![sock] = @ + 1]
            /\ UNCHANGED <<sessions, activeSessions>>
       ELSE /\ Len(sessions) < MaxSessions
            /\ sessions' = Append(sessions, NewSession(sock, containerId, socketUser[sock].id))
            /\ activeSessions' = [activeSessions EXCEPT ![sock] = Len(sessions) + 1]
            /\ UNCHANGED sockErrors
  /\ UNCHANGED <<role, container, containerLog, socketState, socketUser>>
  /\ UNCHANGED <<routeOnly, statsOnly, unitOnly>>

\* start(): prisma.container.findUnique resolves
StartFindContainer(s, dbOk) ==
  /\ s \in DOMAIN sessions
  /\ sessions[s].pc = "findContainer"
  /\ LET found == container[sessions[s].containerId]
     IN IF dbOk /\ found # NoRecord
          THEN /\ sessions' = [sessions EXCEPT ![s].found = found, ![s].pc = "findUser"]
               /\ UNCHANGED <<activeSessions, containerLog>>
          ELSE StartFailed(s)
  /\ UNCHANGED <<role, container, socketState, socketUser, sockErrors>>
  /\ UNCHANGED <<routeOnly, statsOnly, unitOnly>>

\* the second and third check with the status comparison left out
NotRunningNoEngineId(found) == found.dockerId = NoId

\* the second and third check of start(): !container.dockerId, then
\* container.status !== 'RUNNING'
NotRunning(found) == found.dockerId = NoId \/ found.status # "RUNNING"

\* start(): prisma.user.findUnique resolves, then the three checks
StartFindUser(s, dbOk) ==
  /\ s \in DOMAIN sessions
  /\ sessions[s].pc = "findUser"
  /\ LET sess == sessions[s]
     IN IF /\ dbOk
           /\ ~AccessDenied(role[sess.userId], sess.found.ownerId, sess.userId)
           /\ ~NotRunning(sess.found)
          THEN /\ sessions' = [sessions EXCEPT ![s].pc = "exec", ![s].execCalls = @ + 1]
               /\ UNCHANGED <<activeSessions, containerLog>>
          ELSE StartFailed(s)
  /\ UNCHANGED <<role, container, socketState, socketUser, sockErrors>>
  /\ UNCHANGED <<routeOnly, statsOnly, unitOnly>>

\* start(): containerManager.execCommand resolves or rejects
StartExec(s, execOk) ==
  /\ s \in DOMAIN sessions
  /\ sessions[s].pc = "exec"
  /\ IF execOk
       THEN /\ sessions' = [sessions EXCEPT ![s].dockerExec = TRUE,
                                            ![s].stream = TRUE,
                                            ![s].streamObj = "open",
                                            ![s].isActive = TRUE,
                                            ![s].connected = @ + 1,
                                            ![s].pc = "logConnect"]
            /\ UNCHANGED <<activeSessions, containerLog>>
       ELSE StartFailed(s)
  /\ UNCHANGED <<role, container, socketState, socketUser, sockErrors>>
  /\ UNCHANGED <<routeOnly, statsOnly, unitOnly>>

\* start(): the CONSOLE_CONNECT prisma.containerLog.create resolves or rejects
StartLogConnect(s, dbOk) ==
  /\ s \in DOMAIN sessions
  /\ sessions[s].pc = "logConnect"
  /\ IF dbOk
       THEN /\ sessions' = [sessions EXCEPT ![s].pc = "done"]
            /\ containerLog' = containerLog (+) SetToBag({LogRow(sessions[s].containerId, "CONSOLE_CONNECT", s)})
            /\ UNCHANGED activeSessions
       ELSE StartFailed(s)
  /\ UNCHANGED <<role, container, socketState, socketUser, sockErrors>>
  /\ UNCHANGED <<routeOnly, statsOnly, unitOnly>>

\* socket.on('console:disconnect')
ConsoleDisconnect(sock) ==
  /\ socketState[sock] = "open"
  /\ IF activeSessions[sock] # NoSession
       THEN cleanup(activeSessions[sock], sessions[activeSessions[sock]])
       ELSE UNCHANGED <<sessions, activeSessions, containerLog>>
  /\ UNCHANGED <<role, container, socketState, socketUser, sockErrors>>
  /\ UNCHANGED <<routeOnly, statsOnly, unitOnly>>

\* socket.on('disconnect'): the connection is gone, no further message arrives
SocketDisconnect(sock) ==
  /\ socketState[sock] = "open"
  /\ socketState' = [socketState EXCEPT ![sock] = "closed"]
  /\ IF activeSessions[sock] # NoSession
       THEN cleanup(activeSessions[sock], sessions[activeSessions[sock]])
       ELSE UNCHANGED <<sessions, activeSessions, containerLog>>
  /\ UNCHANGED <<role, container, socketUser, sockErrors>>
  /\ UNCHANGED <<routeOnly, statsOnly, unitOnly>>

\* stream.on('end'): console:disconnected, then cleanup()
StreamEnd(s) ==
  /\ s \in DOMAIN sessions
  /\ sessions[s].streamObj = "open"
  /\ cleanup(s, [sessions[s] EXCEPT !.disconnected = @ + 1])
  /\ UNCHANGED <<role, container, socketState, socketUser, sockErrors>>
  /\ UNCHANGED <<routeOnly, statsOnly, unitOnly>>

\* stream.on('error'): console:error, then cleanup()
StreamError(s) ==
  /\ s \in DOMAIN sessions
  /\ sessions[s].streamObj = "open"
  /\ cleanup(s, [sessions[s] EXCEPT !.errors = @ + 1])
  /\ UNCHANGED <<role, container, socketState, socketUser, sockErrors>>
  /\ UNCHANGED <<routeOnly, statsOnly, unitOnly>>

\* ------------------------------------------------------------ service process
\* the process runs its handlers until it exits
Serving == server \in {"listening", "closing"}

\* gracefulShutdown(signal), on SIGTERM or SIGINT: server.close() stops the
\* listener and leaves the open connections alone; a 30 s timer is armed.
\* Nothing else is called.
gracefulShutdown ==
  /\ server = "listening"
  /\ server' = "closing"
  /\ UNCHANGED <<role, container, containerLog, consoleOnly, routeOnly, statsOnly,
                 sample, report, accepted, history, memoryArg, memoryBytes>>

\* the callback of server.close(): every connection has ended, process.exit(0)
ServerClosed ==
  /\ server = "closing"
  /\ \A sock \in Sockets : socketState[sock] # "open"
  /\ \A sock \in StatsSockets : statsSockets[sock].state # "open"
  /\ server' = "exit 0"
  /\ UNCHANGED <<role, container, containerLog, consoleOnly, routeOnly, statsOnly,
                 sample, report, accepted, history, memoryArg, memoryBytes>>

\* the 30 s timer of gracefulShutdown fires: process.exit(1)
ForceExit ==
  /\ server = "closing"
  /\ server' = "exit 1"
  /\ UNCHANGED <<role, container, containerLog, consoleOnly, routeOnly, statsOnly,
                 sample, report, accepted, history, memoryArg, memoryBytes>>

\* the console events whose handlers destructure their payload outside a try
BareEvents == {"console:command", "console:input", "console:resize"}

\* socket.on('console:command' | 'console:input' | 'console:resize') for a
\* message sent with no payload: without a registered session the handler
\* returns (console:command emits console:error first); with one,
\* `const { ... } = data` throws in the async handler, the rejection is
\* unhandled and process.on('unhandledRejection') calls process.exit(1)
ConsoleNoPayload(sock, event) ==
  /\ Serving
  /\ socketState[sock] = "open"
  /\ IF activeSessions[sock] = NoSession
       THEN /\ IF event = "console:command"
                 THEN /\ sockErrors[sock] < MaxSockErrors
                      /\ sockErrors' = [sockErrors EXCEPT ![sock] = @ + 1]
                 ELSE UNCHANGED sockErrors
            /\ UNCHANGED server
       ELSE /\ server' = "unhandledRejection"
            /\ UNCHANGED sockErrors
  /\ UNCHANGED <<role, container, containerLog, socketState, socketUser,
                 activeSessions, sessions, routeOnly, statsOnly,
                 sample, report, accepted, history, memoryArg, memoryBytes>>

\* the bytes of the chunks: 'a', and the two bytes of a two-byte character
Bytes == {"61", "C3", "A9"}
Chunks == {<<b>> : b \in Bytes}

\* Buffer.prototype.toString(): UTF-8 decoding; a byte that does not belong to
\* a complete character of the chunk is decoded as U+FFFD
RECURSIVE toString(_)
toString(chunk) ==
  IF chunk = << >> THEN << >>
  ELSE IF Len(chunk) >= 2 /\ chunk[1] = "C3" /\ chunk[2] = "A9"
    THEN <<"U+00E9">> \o toString(SubSeq(chunk, 3, Len(chunk)))
  ELSE IF chunk[1] = "61" THEN <<"a">> \o toString(Tail(chunk))
  ELSE <<"U+FFFD">> \o toString(Tail(chunk))

\* a listener that adds the chunk to the message emitted before it
OnDataCoalescing(outputs, chunk) ==
  IF outputs = << >> THEN <<toString(chunk)>>
  ELSE [outputs EXCEPT ![Len(outputs)] = @ \o toString(chunk)]

\* the 'data' listener: socket.emit('console:output', { data: chunk.toString() })
OnData(outputs, chunk) == Append(outputs, toString(chunk))

\* stream.on('data') of session s: the exec stream emits one chunk
StreamData(s, chunk) ==
  /\ s \in DOMAIN sessions
  /\ sessions[s].streamObj = "open"
  /\ Len(sessions[s].streamOut) < MaxChunks
  /\ sessions' = [sessions EXCEPT ![s].streamOut = Append(@, chunk),
                                  ![s].outputs = OnData(@, chunk)]
  /\ UNCHANGED <<role, container, containerLog, socketState, socketUser,
                 activeSessions, sockErrors>>
  /\ UNCHANGED <<routeOnly, statsOnly, unitOnly>>

\* the last n elements of a sequence: Array.prototype.slice(-n)
Last(seq, n) == IF Len(seq) <= n THEN seq ELSE SubSeq(seq, Len(seq) - n + 1, Len(seq))

\* a history update that keeps the first HistoryCap entries
PushHistoryKeepFirst(commandHistory, command) ==
  LET pushed == Append(commandHistory, command)
  IN IF Len(pushed) > HistoryCap THEN SubSeq(pushed, 1, HistoryCap) ELSE pushed

\* sendCommand's history update: push, then keep the last HistoryCap entries
PushHistory(commandHistory, command) ==
  LET pushed == Append(commandHistory, command)
  IN IF Len(pushed) > HistoryCap THEN Last(pushed, HistoryCap) ELSE pushed

\* the commands sent to the session that is followed on its own: different
\* ones until the history is nearly full, then any
NextCommand(n) == IF n < HistoryCap - 2 THEN {Xs(n + 1)} ELSE {Ls, Xs(1)}

\* sendCommand accepts one more command on the session followed on its own
PushCommand(command) ==
  /\ Len(accepted) < MaxAccepted
  /\ accepted' = Append(accepted, command)
  /\ history' = PushHistory(history, command)
  /\ UNCHANGED <<role, container, containerLog, consoleOnly, routeOnly, statsOnly,
                 sample, report, server, memoryArg, memoryBytes>>

\* sendCommand without its check of isActive and stream
sendCommandUnchecked(sock, s, command, dbOk) ==
  /\ Len(sessions[s].streamIn) < MaxWrites
  /\ sessions' = [sessions EXCEPT
        ![s].commandHistory = PushHistory(@, command),
        ![s].streamIn = Append(@, Concat(command, Newline))]
  /\ containerLog' = containerLog (+)
                       SetToBag({CommandRow(sessions[s].containerId, command, s)})
  /\ UNCHANGED sockErrors

\* ConsoleSession.sendCommand(command) on session s, called for socket sock:
\* refused with console:error unless the session is active, else pushed to the
\* history, written to the stream with a newline, and logged; a rejected log
\* write is answered with console:error
sendCommand(sock, s, command, dbOk) ==
  LET sess == sessions[s]
  IN IF ~sess.isActive \/ ~sess.stream
       THEN /\ sockErrors[sock] < MaxSockErrors
            /\ sockErrors' = [sockErrors EXCEPT ![sock] = @ + 1]
            /\ UNCHANGED <<sessions, containerLog>>
       ELSE /\ Len(sess.streamIn) < MaxWrites
            /\ sessions' = [sessions EXCEPT
                  ![s].commandHistory = PushHistory(@, command),
                  ![s].streamIn = Append(@, Concat(command, Newline))]
            /\ IF dbOk
                 THEN /\ containerLog' = containerLog (+)
                                           SetToBag({CommandRow(sess.containerId, command, s)})
                      /\ UNCHANGED sockErrors
                 ELSE /\ sockErrors[sock] < MaxSockErrors
                      /\ sockErrors' = [sockErrors EXCEPT ![sock] = @ + 1]
                      /\ UNCHANGED containerLog

\* socket.on('console:command'): without a session console:error; a command
\* that is not a string is ignored
ConsoleCommand(sock, command, dbOk) ==
  /\ socketState[sock] = "open"
  /\ IF activeSessions[sock] = NoSession
       THEN /\ sockErrors[sock] < MaxSockErrors
            /\ sockErrors' = [sockErrors EXCEPT ![sock] = @ + 1]
            /\ UNCHANGED <<sessions, containerLog>>
       ELSE IF IsString(command)
         THEN sendCommand(sock, activeSessions[sock], command, dbOk)
         ELSE UNCHANGED <<sessions, containerLog, sockErrors>>
  /\ UNCHANGED <<role, container, socketState, socketUser, activeSessions>>
  /\ UNCHANGED <<routeOnly, statsOnly, unitOnly>>

\* sendInput writing a line, as sendCommand does
sendInputLine(s, input) ==
  LET sess == sessions[s]
  IN IF ~sess.isActive \/ ~sess.stream
       THEN UNCHANGED sessions
       ELSE /\ Len(sess.streamIn) < MaxWrites
            /\ sessions' = [sessions EXCEPT ![s].streamIn = Append(@, Concat(input, Newline))]

\* ConsoleSession.sendInput(input) on session s
sendInput(s, input) ==
  LET sess == sessions[s]
  IN IF ~sess.isActive \/ ~sess.stream
       THEN UNCHANGED sessions
       ELSE /\ Len(sess.streamIn) < MaxWrites
            /\ sessions' = [sessions EXCEPT ![s].streamIn = Append(@, input)]

\* socket.on('console:input'): ignored without a session or a string input
ConsoleInput(sock, input) ==
  /\ socketState[sock] = "open"
  /\ IF activeSessions[sock] = NoSession
       THEN UNCHANGED sessions
       ELSE IF IsString(input)
         THEN sendInput(activeSessions[sock], input)
         ELSE UNCHANGED sessions
  /\ UNCHANGED <<role, container, containerLog, socketState, socketUser,
                 activeSessions, sockErrors>>
  /\ UNCHANGED <<routeOnly, statsOnly, unitOnly>>

\* the console:resize payloads: a size, and one whose fields are not numbers
Sizes == {[cols |-> 80, rows |-> 24, numbers |-> TRUE],
          [cols |-> 0, rows |-> 0, numbers |-> FALSE]}

\* a resize whose failure ends the session as a stream error does
resizeFatal(s, cols, rows, ok) ==
  LET sess == sessions[s]
  IN IF ~sess.isActive \/ ~sess.dockerExec
       THEN UNCHANGED <<sessions, activeSessions, containerLog>>
       ELSE IF ok
         THEN /\ sessions' = [sessions EXCEPT ![s].tty = [h |-> rows, w |-> cols]]
              /\ UNCHANGED <<activeSessions, containerLog>>
         ELSE /\ Len(sess.resizeFailures) < MaxResizeFailures
              /\ cleanup(s, [sess EXCEPT !.resizeFailures = Append(@, Len(sess.streamIn)),
                                          !.errors = @ + 1])

\* ConsoleSession.resize(cols, rows) on session s: dockerExec.resize({ h: rows,
\* w: cols }) resolves, or rejects and is logged
resize(s, cols, rows, ok) ==
  LET sess == sessions[s]
  IN IF ~sess.isActive \/ ~sess.dockerExec
       THEN UNCHANGED <<sessions, activeSessions, containerLog>>
       ELSE IF ok
         THEN /\ sessions' = [sessions EXCEPT ![s].tty = [h |-> rows, w |-> cols]]
              /\ UNCHANGED <<activeSessions, containerLog>>
         ELSE /\ Len(sess.resizeFailures) < MaxResizeFailures
              /\ sessions' = [sessions EXCEPT
                                ![s].resizeFailures = Append(@, Len(sess.streamIn))]
              /\ UNCHANGED <<activeSessions, containerLog>>

\* socket.on('console:resize'): ignored without a session or numeric cols, rows
ConsoleResize(sock, size, ok) ==
  /\ socketState[sock] = "open"
  /\ IF activeSessions[sock] = NoSession \/ ~size.numbers
       THEN UNCHANGED <<sessions, activeSessions, containerLog>>
       ELSE resize(activeSessions[sock], size.cols, size.rows, ok)
  /\ UNCHANGED <<role, container, socketState, socketUser, sockErrors>>
  /\ UNCHANGED <<routeOnly, statsOnly, unitOnly>>

\* PUT /api/admin/users/:id with a role: prisma.user.update
AdminUpdateUser(u, newRole) ==
  /\ \E admin \in Users : role[admin] = "ADMIN"
  /\ role[u] # newRole
  /\ role' = [role EXCEPT ![u] = newRole]
  /\ UNCHANGED <<container, containerLog, socketState, socketUser, activeSessions,
                 sessions, sockErrors>>
  /\ UNCHANGED <<routeOnly, statsOnly, unitOnly>>

\* ------------------------------------------------------------- engine
\* the persisted container records
Records == {c \in ContainerIds : container[c] # NoRecord}

\* the engine object d exists (container.inspect() resolves)
Exists(d) == d \in DockerIds /\ engine[d] \in {"created", "running", "exited"}

\* container.start(): rejected (304) for a running container, (404) for none
CanStart(d) == Exists(d) /\ engine[d] # "running"

\* container.stop(): rejected (304) unless the container is running
CanStop(d) == Exists(d) /\ engine[d] = "running"

\* container.restart()
CanRestart(d) == Exists(d)

\* container.remove({ force }): a running container is removed only by force
CanRemove(d, force) == Exists(d) /\ (force \/ engine[d] # "running")

\* the ids docker.createContainer can still assign
FreshDockerIds == {d \in DockerIds : engine[d] = "absent"}

\* String.prototype.toUpperCase on State.Status
toUpperCase(st) ==
  CASE st = "created" -> "CREATED"
    [] st = "running" -> "RUNNING"
    [] st = "exited" -> "EXITED"
    [] OTHER -> st

\* the container's main process ends by itself
EngineExit(d) ==
  /\ d \in DockerIds
  /\ engine[d] = "running"
  /\ engine' = [engine EXCEPT ![d] = "exited"]
  /\ UNCHANGED <<role, container, containerLog, consoleOnly, unitOnly, statsOnly, requests, inserted, admitted>>

\* ------------------------------------------------------------- requests
\* checkContainerLimit: parseInt(process.env.MAX_CONTAINERS_PER_MEMBER) || 1
MaxContainersPerMember == 1

IdleRequest ==
  [ kind |-> "none",      \* the route
    user |-> NULL,        \* req.user.id
    role |-> NULL,        \* req.user.role, read by verifyToken
    id |-> NoId,          \* req.params.id; for a create, the id of the record it inserted
    name |-> NULL,        \* req.body.name
    force |-> FALSE,      \* req.query.force
    pc |-> "idle",        \* the await the handler is suspended at
    dockerId |-> NoId,    \* the handler's container.dockerId / dockerContainer.id
    todo |-> {},          \* reads: docker ids whose sync has not inspected yet
    seen |-> {},          \* reads: <<docker id, status>> inspected, not yet written
    body |-> {},          \* reads: the containers of the response
    res |-> 0 ]           \* HTTP status of the slot's last response

\* verifyToken: req.user is read from the datastore as the request arrives
NewRequest(kind, u, id, name, force, pc) ==
  [IdleRequest EXCEPT !.kind = kind, !.user = u, !.role = role[u], !.id = id,
                      !.name = name, !.force = force, !.pc = pc]

\* the response is sent: the slot keeps the route, the record id and the status
Responded(req, code) ==
  [IdleRequest EXCEPT !.kind = req.kind, !.id = req.id, !.res = code]

Respond(r, code) == requests' = [requests EXCEPT ![r] = Responded(requests[r], code)]

\* sendSuccessResponse(res, { containers }) / { container }
RespondedWith(req, body) == [Responded(req, 200) EXCEPT !.body = body]

Admit(r) ==
  /\ requests[r].pc = "idle"
  /\ admitted < MaxRequests
  /\ admitted' = admitted + 1

\* req.params of the routes declared with '/:id': there is no containerId
RouteParams(id) == [id |-> id, containerId |-> NoId]

\* requireContainerOwnership: 0 for next(), else the status it responds with.
\* It looks the container up by req.params.containerId; findUnique rejects an
\* undefined id, which the catch answers with 500.
requireContainerOwnership(userRole, userId, params) ==
  IF userRole = "ADMIN" THEN 0
  ELSE IF params.containerId = NoId THEN 500
  ELSE IF container[params.containerId] = NoRecord THEN 404
  ELSE IF container[params.containerId].ownerId # userId THEN 403
  ELSE 0

\* verifyToken, requireContainerOwnership, then the handler up to its first await
Guarded(r, req) ==
  LET verdict == requireContainerOwnership(req.role, req.user, RouteParams(req.id))
  IN requests' = [requests EXCEPT ![r] = IF verdict = 0 THEN req ELSE Responded(req, verdict)]

OwnedBy(u) == {c \in ContainerIds : container[c] # NoRecord /\ container[c].ownerId = u}

\* checkContainerLimit(userId, userRole)
checkContainerLimit(userId, userRole) ==
  IF userRole = "ADMIN" THEN TRUE
  ELSE Cardinality(OwnedBy(userId)) < MaxContainersPerMember

\* ------------------------------------------------------------- POST /
\* a provisional record written as RUNNING before any engine object exists
ProvisionalRecordRunning(name, owner) == ContainerRecord(name, owner, NoId, "RUNNING")

\* the record prisma.container.create writes first: status 'CREATED', no dockerId
ProvisionalRecord(name, owner) == ContainerRecord(name, owner, NoId, "CREATED")

\* the names bound where the catch block of the handler runs: `container` and
\* `dockerContainer` are const declarations of the try block and are not
\* among them
CatchScope == {"req", "res", "name", "image", "userId", "userRole", "prisma", "error"}

\* the id the catch block hands to prisma.container.delete: evaluating
\* container?.id throws a ReferenceError when `container` is not bound
RollbackTarget(req) == IF "container" \in CatchScope THEN req.id ELSE NoId

\* the catch block: delete the provisional record (any failure of that is
\* caught and logged), then rethrow
Rollback(r, cont) ==
  LET target == RollbackTarget(requests[r])
  IN /\ container' = IF target # NoId THEN [cont EXCEPT ![target] = NoRecord] ELSE cont
     /\ Respond(r, 500)

CreateRequest(r, u, name) ==
  /\ Admit(r)
  /\ requests' = [requests EXCEPT ![r] = NewRequest("create", u, NoId, name, FALSE, "limit")]
  /\ UNCHANGED <<role, container, containerLog, consoleOnly, unitOnly, statsOnly, engine, inserted>>

\* checkContainerLimit resolves; the image is taken to be an allowed one
CreateCheckLimit(r) ==
  /\ requests[r].kind = "create" /\ requests[r].pc = "limit"
  /\ IF checkContainerLimit(requests[r].user, requests[r].role)
       THEN requests' = [requests EXCEPT ![r].pc = "name"]
       ELSE Respond(r, 409)
  /\ UNCHANGED <<role, container, containerLog, consoleOnly, unitOnly, statsOnly, engine, inserted, admitted>>

\* prisma.container.findFirst({ name, ownerId: userId }) resolves
CreateCheckName(r) ==
  /\ requests[r].kind = "create" /\ requests[r].pc = "name"
  /\ IF \E c \in OwnedBy(requests[r].user) : container[c].name = requests[r].name
       THEN Respond(r, 409)
       ELSE requests' = [requests EXCEPT ![r].pc = "insert"]
  /\ UNCHANGED <<role, container, containerLog, consoleOnly, unitOnly, statsOnly, engine, inserted, admitted>>

\* prisma.container.create resolves or rejects
CreateInsert(r, dbOk) ==
  /\ requests[r].kind = "create" /\ requests[r].pc = "insert"
  /\ inserted < MaxRecords
  /\ IF dbOk
       THEN /\ container' = [container EXCEPT ![inserted + 1] =
                               ProvisionalRecord(requests[r].name, requests[r].user)]
            /\ inserted' = inserted + 1
            /\ requests' = [requests EXCEPT ![r].id = inserted + 1, ![r].pc = "engine"]
       ELSE /\ Rollback(r, container)
            /\ UNCHANGED inserted
  /\ UNCHANGED <<role, containerLog, consoleOnly, unitOnly, statsOnly, engine, admitted>>

\* containerManager.createContainer resolves with a new engine object or rejects
CreateEngine(r, ok) ==
  /\ requests[r].kind = "create" /\ requests[r].pc = "engine"
  /\ IF ok
       THEN /\ FreshDockerIds # {}
            /\ LET d == CHOOSE e \in FreshDockerIds : \A f \in FreshDockerIds : e <= f
               IN /\ engine' = [engine EXCEPT ![d] = "created"]
                  /\ requests' = [requests EXCEPT ![r].dockerId = d, ![r].pc = "link"]
            /\ UNCHANGED container
       ELSE /\ Rollback(r, container)
            /\ UNCHANGED engine
  /\ UNCHANGED <<role, containerLog, consoleOnly, unitOnly, statsOnly, inserted, admitted>>

\* prisma.container.update({ dockerId, status: 'CREATED' }) resolves or rejects
CreateLink(r, dbOk) ==
  /\ requests[r].kind = "create" /\ requests[r].pc = "link"
  /\ LET req == requests[r]
     IN IF dbOk /\ container[req.id] # NoRecord
          THEN /\ container' = [container EXCEPT ![req.id].dockerId = req.dockerId,
                                                 ![req.id].status = "CREATED"]
               /\ Respond(r, 201)
          ELSE Rollback(r, container)
  /\ UNCHANGED <<role, containerLog, consoleOnly, unitOnly, statsOnly, engine, inserted, admitted>>

\* ------------------------------------------------------------- PUT /:id
RenameRequest(r, u, id, name) ==
  /\ Admit(r)
  /\ Guarded(r, NewRequest("rename", u, id, name, FALSE, "name"))
  /\ UNCHANGED <<role, container, containerLog, consoleOnly, unitOnly, statsOnly, engine, inserted>>

\* prisma.container.findFirst({ name, ownerId: req.user.id, id: { not: id } })
RenameCheckName(r) ==
  /\ requests[r].kind = "rename" /\ requests[r].pc = "name"
  /\ IF \E c \in OwnedBy(requests[r].user) \ {requests[r].id} :
          container[c].name = requests[r].name
       THEN Respond(r, 409)
       ELSE requests' = [requests EXCEPT ![r].pc = "update"]
  /\ UNCHANGED <<role, container, containerLog, consoleOnly, unitOnly, statsOnly, engine, inserted, admitted>>

\* prisma.container.update({ where: { id }, data: { name } })
RenameUpdate(r) ==
  /\ requests[r].kind = "rename" /\ requests[r].pc = "update"
  /\ LET req == requests[r]
     IN IF container[req.id] # NoRecord
          THEN /\ container' = [container EXCEPT ![req.id].name = req.name]
               /\ Respond(r, 200)
          ELSE /\ Respond(r, 404)
               /\ UNCHANGED container
  /\ UNCHANGED <<role, containerLog, consoleOnly, unitOnly, statsOnly, engine, inserted, admitted>>

\* ------------------------------------------- POST /:id/start, /stop, /restart
StartRequest(r, u, id) ==
  /\ Admit(r)
  /\ Guarded(r, NewRequest("start", u, id, NULL, FALSE, "find"))
  /\ UNCHANGED <<role, container, containerLog, consoleOnly, unitOnly, statsOnly, engine, inserted>>

StopRequest(r, u, id) ==
  /\ Admit(r)
  /\ Guarded(r, NewRequest("stop", u, id, NULL, FALSE, "find"))
  /\ UNCHANGED <<role, container, containerLog, consoleOnly, unitOnly, statsOnly, engine, inserted>>

RestartRequest(r, u, id) ==
  /\ Admit(r)
  /\ Guarded(r, NewRequest("restart", u, id, NULL, FALSE, "find"))
  /\ UNCHANGED <<role, container, containerLog, consoleOnly, unitOnly, statsOnly, engine, inserted>>

LifecycleKinds == {"start", "stop", "restart"}

\* the engine id check with its outcome fixed to "present"
MissingDockerIdNever(found) == FALSE

\* if (!container.dockerId) throw new ValidationError(...)
MissingDockerId(found) == found.dockerId = NoId

\* prisma.container.findUnique resolves: NotFoundError without a record,
\* ValidationError without a dockerId
LifecycleFind(r) ==
  /\ requests[r].kind \in LifecycleKinds /\ requests[r].pc = "find"
  /\ LET found == container[requests[r].id]
     IN IF found = NoRecord THEN Respond(r, 404)
        ELSE IF MissingDockerId(found) THEN Respond(r, 400)
        ELSE requests' = [requests EXCEPT ![r].dockerId = found.dockerId, ![r].pc = "engine"]
  /\ UNCHANGED <<role, container, containerLog, consoleOnly, unitOnly, statsOnly, engine, inserted, admitted>>

\* whether the engine carries out the handler's call on object d
EngineAccepts(kind, d) ==
  CASE kind = "start" -> CanStart(d)
    [] kind = "stop" -> CanStop(d)
    [] kind = "restart" -> CanRestart(d)

\* the state the engine object is in after the call
EngineAfter(kind) == IF kind = "stop" THEN "exited" ELSE "running"

\* containerManager.startContainer / stopContainer / restartContainer resolves
\* or rejects
LifecycleEngine(r, ok) ==
  /\ requests[r].kind \in LifecycleKinds /\ requests[r].pc = "engine"
  /\ LET req == requests[r]
     IN IF ok /\ EngineAccepts(req.kind, req.dockerId)
          THEN /\ engine' = [engine EXCEPT ![req.dockerId] = EngineAfter(req.kind)]
               /\ requests' = [requests EXCEPT ![r].pc = "status"]
          ELSE /\ Respond(r, 500)
               /\ UNCHANGED engine
  /\ UNCHANGED <<role, container, containerLog, consoleOnly, unitOnly, statsOnly, inserted, admitted>>

\* the status written after the engine call, the same for every action
StatusAfterRunning(kind) == "RUNNING"

\* the status each handler writes after its engine call
StatusAfter(kind) == IF kind = "stop" THEN "STOPPED" ELSE "RUNNING"

\* prisma.container.update({ where: { id }, data: { status } })
LifecycleUpdate(r, dbOk) ==
  /\ requests[r].kind \in LifecycleKinds /\ requests[r].pc = "status"
  /\ LET req == requests[r]
     IN IF dbOk /\ container[req.id] # NoRecord
          THEN /\ container' = [container EXCEPT ![req.id].status = StatusAfter(req.kind)]
               /\ requests' = [requests EXCEPT ![r].pc = "log"]
          ELSE /\ Respond(r, IF dbOk THEN 404 ELSE 500)
               /\ UNCHANGED container
  /\ UNCHANGED <<role, containerLog, consoleOnly, unitOnly, statsOnly, engine, inserted, admitted>>

\* the command column of the row each handler logs
LogCommand(kind) ==
  CASE kind = "start" -> "START"
    [] kind = "stop" -> "STOP"
    [] kind = "restart" -> "RESTART"

\* prisma.containerLog.create for the action; a row for a record that is gone
\* is refused
LifecycleLog(r) ==
  /\ requests[r].kind \in LifecycleKinds /\ requests[r].pc = "log"
  /\ LET req == requests[r]
     IN IF container[req.id] # NoRecord
          THEN /\ containerLog' = containerLog (+)
                     SetToBag({LogRow(req.id, LogCommand(req.kind), NoSession)})
               /\ Respond(r, 200)
          ELSE /\ Respond(r, 400)
               /\ UNCHANGED containerLog
  /\ UNCHANGED <<role, container, consoleOnly, unitOnly, statsOnly, engine, inserted, admitted>>

\* ------------------------------- DELETE /:id and DELETE /api/admin/containers/:id
DeleteRequest(r, u, id, force) ==
  /\ Admit(r)
  /\ Guarded(r, NewRequest("delete", u, id, NULL, force, "find"))
  /\ UNCHANGED <<role, container, containerLog, consoleOnly, unitOnly, statsOnly, engine, inserted>>

\* router.use(verifyToken, requireAdmin), then the force delete handler
AdminDeleteRequest(r, u, id) ==
  /\ Admit(r)
  /\ LET req == NewRequest("adminDelete", u, id, NULL, TRUE, "find")
     IN requests' = [requests EXCEPT ![r] =
                       IF req.role = "ADMIN" THEN req ELSE Responded(req, 403)]
  /\ UNCHANGED <<role, container, containerLog, consoleOnly, unitOnly, statsOnly, engine, inserted>>

DeleteKinds == {"delete", "adminDelete"}

\* prisma.container.findUnique resolves
DeleteFind(r) ==
  /\ requests[r].kind \in DeleteKinds /\ requests[r].pc = "find"
  /\ LET found == container[requests[r].id]
     IN IF found = NoRecord THEN Respond(r, 404)
        ELSE IF found.dockerId = NoId THEN requests' = [requests EXCEPT ![r].pc = "record"]
        ELSE requests' = [requests EXCEPT ![r].dockerId = found.dockerId, ![r].pc = "engine"]
  /\ UNCHANGED <<role, container, containerLog, consoleOnly, unitOnly, statsOnly, engine, inserted, admitted>>

\* the engine removal with its rejection rethrown instead of logged
DeleteEngineFatal(r, ok) ==
  /\ requests[r].kind \in DeleteKinds /\ requests[r].pc = "engine"
  /\ LET req == requests[r]
     IN IF ok /\ CanRemove(req.dockerId, req.force)
          THEN /\ engine' = [engine EXCEPT ![req.dockerId] = "removed"]
               /\ requests' = [requests EXCEPT ![r].pc = "record"]
          ELSE /\ Respond(r, 500)
               /\ UNCHANGED engine
  /\ UNCHANGED <<role, container, containerLog, consoleOnly, unitOnly, statsOnly, inserted, admitted>>

\* containerManager.removeContainer(dockerId, force) resolves or rejects; a
\* rejection is logged and the handler goes on
DeleteEngine(r, ok) ==
  /\ requests[r].kind \in DeleteKinds /\ requests[r].pc = "engine"
  /\ LET req == requests[r]
     IN engine' = IF ok /\ CanRemove(req.dockerId, req.force)
                    THEN [engine EXCEPT ![req.dockerId] = "removed"]
                    ELSE engine
  /\ requests' = [requests EXCEPT ![r].pc = "record"]
  /\ UNCHANGED <<role, container, containerLog, consoleOnly, unitOnly, statsOnly, inserted, admitted>>

\* prisma.container.delete({ where: { id } }) resolves or rejects
DeleteRecord(r, dbOk) ==
  /\ requests[r].kind \in DeleteKinds /\ requests[r].pc = "record"
  /\ LET req == requests[r]
     IN IF dbOk /\ container[req.id] # NoRecord
          THEN /\ container' = [container EXCEPT ![req.id] = NoRecord]
               /\ Respond(r, 200)
          ELSE /\ Respond(r, IF dbOk THEN 404 ELSE 500)
               /\ UNCHANGED container
  /\ UNCHANGED <<role, containerLog, consoleOnly, unitOnly, statsOnly, engine, inserted, admitted>>

\* ------------------------------------------------------- GET / and GET /:id
ListRequest(r, u) ==
  /\ Admit(r)
  /\ requests' = [requests EXCEPT ![r] = NewRequest("list", u, NoId, NULL, FALSE, "find")]
  /\ UNCHANGED <<role, container, containerLog, consoleOnly, unitOnly, statsOnly, engine, inserted>>

DetailRequest(r, u, id) ==
  /\ Admit(r)
  /\ Guarded(r, NewRequest("detail", u, id, NULL, FALSE, "find"))
  /\ UNCHANGED <<role, container, containerLog, consoleOnly, unitOnly, statsOnly, engine, inserted>>

\* the records GET / selects: a member's own, every record otherwise
Listed(req) ==
  {c \in ContainerIds : /\ container[c] # NoRecord
                        /\ (req.role = "MEMBER" => container[c].ownerId = req.user)}

\* one container of a response, as the query returned it: `asked` once the
\* handler has called the engine for it, `live` the State.Status it was given
Exposed(c) ==
  [id |-> c, dockerId |-> container[c].dockerId, status |-> container[c].status,
   asked |-> FALSE, live |-> NULL]

\* the reads begin one reconciliation per selected record that has a dockerId
BeginSync(r, ids) ==
  LET dockerIds == {container[c].dockerId : c \in ids} \ {NoId}
      body == {Exposed(c) : c \in ids}
  IN requests' = [requests EXCEPT ![r] =
                    IF dockerIds = {} THEN RespondedWith(requests[r], body)
                    ELSE [requests[r] EXCEPT !.todo = dockerIds, !.body = body, !.pc = "sync"]]

\* prisma.container.findMany resolves
ListFind(r) ==
  /\ requests[r].kind = "list" /\ requests[r].pc = "find"
  /\ BeginSync(r, Listed(requests[r]))
  /\ UNCHANGED <<role, container, containerLog, consoleOnly, unitOnly, statsOnly, engine, inserted, admitted>>

\* prisma.container.findUnique resolves
DetailFind(r) ==
  /\ requests[r].kind = "detail" /\ requests[r].pc = "find"
  /\ IF container[requests[r].id] = NoRecord
       THEN Respond(r, 404)
       ELSE BeginSync(r, {requests[r].id})
  /\ UNCHANGED <<role, container, containerLog, consoleOnly, unitOnly, statsOnly, engine, inserted, admitted>>

\* one reconciliation has left the request: respond once none is pending
SyncStep(r, todo, seen, body) ==
  requests' = [requests EXCEPT ![r] =
                 IF todo = {} /\ seen = {}
                   THEN RespondedWith(requests[r], body)
                   ELSE [requests[r] EXCEPT !.todo = todo, !.seen = seen, !.body = body]]

\* the response entries of docker id d after the engine was called for them
Asked(body, d, live) ==
  {IF b.dockerId = d THEN [b EXCEPT !.asked = TRUE, !.live = live] ELSE b : b \in body}

\* dockerStatus = (await syncContainerStatus(dockerId)) || container.status
Synced(body, d, status) ==
  {IF b.dockerId = d THEN [b EXCEPT !.status = status] ELSE b : b \in body}

\* the engine reads of one container: getContainerStats (and getContainerInfo),
\* then syncContainerStatus's getContainerInfo. A rejected read ends that
\* container's reconciliation; else State.Status is upper-cased.
SyncInspect(r, d, ok) ==
  /\ requests[r].pc = "sync"
  /\ d \in requests[r].todo
  /\ IF ok /\ Exists(d)
       THEN SyncStep(r, requests[r].todo \ {d},
                     requests[r].seen \cup {<<d, toUpperCase(engine[d])>>},
                     Asked(requests[r].body, d, toUpperCase(engine[d])))
       ELSE SyncStep(r, requests[r].todo \ {d}, requests[r].seen,
                     Asked(requests[r].body, d, NULL))
  /\ UNCHANGED <<role, container, containerLog, consoleOnly, unitOnly, statsOnly, engine, inserted, admitted>>

\* syncContainerStatus's null returned to a caller that has no fallback
SyncUpdateNoFallback(r, d, status, dbOk) ==
  /\ requests[r].pc = "sync"
  /\ <<d, status>> \in requests[r].seen
  /\ container' = [c \in ContainerIds |->
                     IF dbOk /\ container[c] # NoRecord /\ container[c].dockerId = d
                       THEN [container[c] EXCEPT !.status = status]
                       ELSE container[c]]
  /\ SyncStep(r, requests[r].todo, requests[r].seen \ {<<d, status>>},
              IF dbOk /\ \E c \in ContainerIds : container[c] # NoRecord /\ container[c].dockerId = d
                THEN Synced(requests[r].body, d, status)
                ELSE Synced(requests[r].body, d, NULL))
  /\ UNCHANGED <<role, containerLog, consoleOnly, unitOnly, statsOnly, engine, inserted, admitted>>

\* syncContainerStatus: prisma.container.update({ where: { dockerId }, data:
\* { status } }) stores the status, or rejects and is caught (null is returned
\* and the caller falls back to the status it read)
SyncUpdate(r, d, status, dbOk) ==
  /\ requests[r].pc = "sync"
  /\ <<d, status>> \in requests[r].seen
  /\ container' = [c \in ContainerIds |->
                     IF dbOk /\ container[c] # NoRecord /\ container[c].dockerId = d
                       THEN [container[c] EXCEPT !.status = status]
                       ELSE container[c]]
  /\ SyncStep(r, requests[r].todo, requests[r].seen \ {<<d, status>>},
              IF dbOk /\ \E c \in ContainerIds : container[c] # NoRecord /\ container[c].dockerId = d
                THEN Synced(requests[r].body, d, status)
                ELSE requests[r].body)
  /\ UNCHANGED <<role, containerLog, consoleOnly, unitOnly, statsOnly, engine, inserted, admitted>>

Statuses == {"CREATED", "RUNNING", "STOPPED", "EXITED"}

\* ------------------------------------------------------- GET /:id/stats
StatsRequest(r, u, id) ==
  /\ Admit(r)
  /\ Guarded(r, NewRequest("stats", u, id, NULL, FALSE, "find"))
  /\ UNCHANGED <<role, container, containerLog, consoleOnly, unitOnly, statsOnly, engine, inserted>>

\* prisma.container.findUnique resolves: NotFoundError without a record,
\* ValidationError without a dockerId
StatsFind(r) ==
  /\ requests[r].kind = "stats" /\ requests[r].pc = "find"
  /\ LET found == container[requests[r].id]
     IN IF found = NoRecord THEN Respond(r, 404)
        ELSE IF MissingDockerId(found) THEN Respond(r, 400)
        ELSE requests' = [requests EXCEPT ![r].dockerId = found.dockerId, ![r].pc = "engine"]
  /\ UNCHANGED <<role, container, containerLog, consoleOnly, unitOnly, statsOnly, engine, inserted, admitted>>

\* containerManager.getContainerStats resolves or rejects
StatsFetch(r, ok) ==
  /\ requests[r].kind = "stats" /\ requests[r].pc = "engine"
  /\ Respond(r, IF ok /\ Exists(requests[r].dockerId) THEN 200 ELSE 500)
  /\ UNCHANGED <<role, container, containerLog, consoleOnly, unitOnly, statsOnly, engine, inserted, admitted>>

\* ------------- GET /api/admin/containers, GET /api/member/containers[/:id]
\* router.use(verifyToken, requireAdmin), then the admin view up to findMany
AdminContainersRequest(r, u) ==
  /\ Admit(r)
  /\ LET req == NewRequest("adminContainers", u, NoId, NULL, FALSE, "find")
     IN requests' = [requests EXCEPT ![r] =
                       IF req.role = "ADMIN" THEN req ELSE Responded(req, 403)]
  /\ UNCHANGED <<role, container, containerLog, consoleOnly, unitOnly, statsOnly, engine, inserted>>

\* router.use(verifyToken, requireMember): requireRole(['MEMBER', 'ADMIN'])
MemberContainersRequest(r, u) ==
  /\ Admit(r)
  /\ requests' = [requests EXCEPT ![r] =
                    NewRequest("memberContainers", u, NoId, NULL, FALSE, "find")]
  /\ UNCHANGED <<role, container, containerLog, consoleOnly, unitOnly, statsOnly, engine, inserted>>

MemberContainerRequest(r, u, id) ==
  /\ Admit(r)
  /\ requests' = [requests EXCEPT ![r] =
                    NewRequest("memberContainer", u, id, NULL, FALSE, "find")]
  /\ UNCHANGED <<role, container, containerLog, consoleOnly, unitOnly, statsOnly, engine, inserted>>

ViewKinds == {"adminContainers", "memberContainers", "memberContainer"}

\* the records the view's query selects: every record for the admin view,
\* where: { ownerId: userId } for the member's, with the id for the single one
Viewed(req) ==
  {c \in Records :
     CASE req.kind = "adminContainers" -> TRUE
       [] req.kind = "memberContainers" -> container[c].ownerId = req.user
       [] OTHER -> c = req.id /\ container[c].ownerId = req.user}

\* findMany / findFirst resolves and the view responds with what it returned;
\* NotFoundError when findFirst returned nothing
ViewFind(r) ==
  /\ requests[r].kind \in ViewKinds /\ requests[r].pc = "find"
  /\ requests' = [requests EXCEPT ![r] =
                    IF requests[r].kind = "memberContainer" /\ Viewed(requests[r]) = {}
                      THEN Responded(requests[r], 404)
                      ELSE RespondedWith(requests[r], {Exposed(c) : c \in Viewed(requests[r])})]
  /\ UNCHANGED <<role, container, containerLog, consoleOnly, unitOnly, statsOnly, engine, inserted, admitted>>

\* ------------------------------------------------------------- /stats namespace
\* const { containerId, interval = 2000 } = data
DefaultInterval == 2000

\* the limits of Math.max(1000, Math.min(10000, interval))
MinInterval == 1000
MaxInterval == 10000

Max(a, b) == IF a >= b THEN a ELSE b
Min(a, b) == IF a <= b THEN a ELSE b

\* the clamp with only its upper limit
ClampIntervalAbove(interval) == Min(MaxInterval, interval)

\* the delay handed to setInterval
ClampInterval(interval) == Max(MinInterval, Min(MaxInterval, interval))

\* the payloads of stats:subscribe: a container id (or none) and an interval
\* (or none)
StatsPayloads ==
  {[containerId |-> c, given |-> TRUE, interval |-> i] :
      c \in ContainerIds \cup {NoId}, i \in Intervals}
    \cup {[containerId |-> c, given |-> FALSE, interval |-> 0] : c \in ContainerIds \cup {NoId}}

\* the destructuring default
IntervalOf(data) == IF data.given THEN data.interval ELSE DefaultInterval

NoTimer == 0

NewStatsSocket ==
  [ state |-> "new",               \* new | open | closed
    user |-> [id |-> NULL, role |-> NULL],
    statsInterval |-> NoTimer,     \* the closure's statsInterval: a timer, or null
    received |-> 0,                \* stats:subscribe messages received
    afterLast |-> "none",          \* what was handled after the last stats:subscribe
                                   \* was received: none | unsubscribe
    lastReply |-> "none",          \* the last event emitted to the client
    message |-> "none" ]           \* and the message it carried

\* clearInterval(id)
clearInterval(tm, id) ==
  IF id \in DOMAIN tm THEN [tm EXCEPT ![id].active = FALSE] ELSE tm

\* the subscribe handler's "clear existing interval" with the clearing left out
ClearExistingNever(tm, id) == tm

\* if (statsInterval) clearInterval(statsInterval)
ClearExisting(tm, id) == IF id # NoTimer THEN clearInterval(tm, id) ELSE tm

\* the timer of an accepted subscription and what was acknowledged for it
NewTimer(sock, sub, dockerId) ==
  [ sock |-> sock, containerId |-> sub.containerId, dockerId |-> dockerId,
    given |-> sub.given, requested |-> sub.interval,
    period |-> ClampInterval(IntervalOf(sub)),   \* the delay of setInterval
    acked |-> IntervalOf(sub),                   \* interval of stats:subscribed
    active |-> TRUE,
    fetches |-> 0,                 \* getContainerStats calls its callback has made
    inflight |-> 0,                \* of which not yet resolved
    emitted |-> << >> ]            \* what the callback has emitted, in order

\* authenticateSocket + the namespace's connection event
StatsHandshake(sock, u) ==
  /\ statsSockets[sock].state = "new"
  /\ statsSockets' = [statsSockets EXCEPT ![sock].state = "open",
                                          ![sock].user = [id |-> u, role |-> role[u]]]
  /\ UNCHANGED <<role, container, containerLog, consoleOnly, unitOnly, routeOnly, timers, subscribes>>

\* socket.on('stats:subscribe') up to its container lookup
StatsSubscribe(sock, data) ==
  /\ statsSockets[sock].state = "open"
  /\ statsSockets[sock].received < MaxSubscribes
  /\ IF data.containerId = NoId
       THEN /\ statsSockets' = [statsSockets EXCEPT ![sock].received = @ + 1,
                                                    ![sock].afterLast = "none",
                                                    ![sock].lastReply = "stats:error",
                                                    ![sock].message = "Container ID is required"]
            /\ UNCHANGED subscribes
       ELSE /\ statsSockets' = [statsSockets EXCEPT ![sock].received = @ + 1,
                                                    ![sock].afterLast = "none"]
            /\ subscribes' = Append(subscribes,
                 [sock |-> sock, containerId |-> data.containerId,
                  given |-> data.given, interval |-> data.interval])
  /\ UNCHANGED <<role, container, containerLog, consoleOnly, unitOnly, routeOnly, timers>>

\* a sequence without its i-th element
RemoveAt(seq, i) == SubSeq(seq, 1, i - 1) \o SubSeq(seq, i + 1, Len(seq))

\* the message of the stats:error a subscribe handler emits: the catch's when
\* the lookup rejects, else that of the first check that fails
Refusal(user, found, dbOk) ==
  IF ~dbOk THEN "Failed to subscribe to stats"
  ELSE IF found = NoRecord THEN "Container not found"
  ELSE IF AccessDenied(user.role, found.ownerId, user.id) THEN "Access denied to this container"
  ELSE "Container is not running"

\* the subscribe handler without its check of the persisted status
StatsSubscribeLookupAnyStatus(i, dbOk) ==
  /\ i \in DOMAIN subscribes
  /\ LET sub == subscribes[i]
         sock == sub.sock
         found == container[sub.containerId]
         user == statsSockets[sock].user
     IN IF /\ dbOk
           /\ found # NoRecord
           /\ ~AccessDenied(user.role, found.ownerId, user.id)
           /\ found.dockerId # NoId
          THEN /\ timers' = Append(ClearExisting(timers, statsSockets[sock].statsInterval),
                                   NewTimer(sock, sub, found.dockerId))
               /\ statsSockets' = [statsSockets EXCEPT
                                     ![sock].statsInterval = Len(timers) + 1,
                                     ![sock].lastReply = "stats:subscribed",
                                     ![sock].message = "none"]
          ELSE /\ statsSockets' = [statsSockets EXCEPT
                                     ![sock].lastReply = "stats:error",
                                     ![sock].message = Refusal(user, found, dbOk)]
               /\ UNCHANGED timers
  /\ subscribes' = RemoveAt(subscribes, i)
  /\ UNCHANGED <<role, container, containerLog, consoleOnly, unitOnly, routeOnly>>

\* socket.on('stats:subscribe'): prisma.container.findUnique resolves or
\* rejects, then the checks, the timer and the acknowledgment
StatsSubscribeLookup(i, dbOk) ==
  /\ i \in DOMAIN subscribes
  /\ LET sub == subscribes[i]
         sock == sub.sock
         found == container[sub.containerId]
         user == statsSockets[sock].user
     IN IF /\ dbOk
           /\ found # NoRecord
           /\ ~AccessDenied(user.role, found.ownerId, user.id)
           /\ found.dockerId # NoId
           /\ found.status = "RUNNING"
          THEN /\ timers' = Append(ClearExisting(timers, statsSockets[sock].statsInterval),
                                   NewTimer(sock, sub, found.dockerId))
               /\ statsSockets' = [statsSockets EXCEPT
                                     ![sock].statsInterval = Len(timers) + 1,
                                     ![sock].lastReply = "stats:subscribed",
                                     ![sock].message = "none"]
          ELSE /\ statsSockets' = [statsSockets EXCEPT
                                     ![sock].lastReply = "stats:error",
                                     ![sock].message = Refusal(user, found, dbOk)]
               /\ UNCHANGED timers
  /\ subscribes' = RemoveAt(subscribes, i)
  /\ UNCHANGED <<role, container, containerLog, consoleOnly, unitOnly, routeOnly>>

\* the timer fires: its callback calls containerManager.getContainerStats
StatsTick(t) ==
  /\ t \in DOMAIN timers
  /\ timers[t].active
  /\ timers[t].fetches < MaxTicks
  /\ timers' = [timers EXCEPT ![t].fetches = @ + 1, ![t].inflight = @ + 1]
  /\ UNCHANGED <<role, container, containerLog, consoleOnly, unitOnly, routeOnly, statsSockets, subscribes>>

\* the event of the timer callback's try (stats:data) and of its catch
Emitted(ok) == IF ok THEN "stats:data" ELSE "stats:error"

\* the timer callback with a catch that also cancels the timer
StatsFetchDoneCancelling(t, ok) ==
  /\ t \in DOMAIN timers
  /\ timers[t].inflight > 0
  /\ timers' = [timers EXCEPT ![t].inflight = @ - 1,
                               ![t].emitted = Append(@, Emitted(ok)),
                               ![t].active = @ /\ ok]
  /\ statsSockets' = [statsSockets EXCEPT
                        ![timers[t].sock].lastReply = Emitted(ok),
                        ![timers[t].sock].message =
                           IF ok THEN "none" ELSE "Failed to get container stats"]
  /\ UNCHANGED <<role, container, containerLog, consoleOnly, unitOnly, routeOnly, subscribes>>

\* getContainerStats resolves (stats:data) or rejects (stats:error)
StatsFetchDone(t, ok) ==
  /\ t \in DOMAIN timers
  /\ timers[t].inflight > 0
  /\ timers' = [timers EXCEPT ![t].inflight = @ - 1,
                               ![t].emitted = Append(@, Emitted(ok))]
  /\ statsSockets' = [statsSockets EXCEPT
                        ![timers[t].sock].lastReply = Emitted(ok),
                        ![timers[t].sock].message =
                           IF ok THEN "none" ELSE "Failed to get container stats"]
  /\ UNCHANGED <<role, container, containerLog, consoleOnly, unitOnly, routeOnly, subscribes>>

\* socket.on('stats:unsubscribe')
StatsUnsubscribe(sock) ==
  /\ statsSockets[sock].state = "open"
  /\ timers' = ClearExisting(timers, statsSockets[sock].statsInterval)
  /\ statsSockets' = [statsSockets EXCEPT ![sock].statsInterval = NoTimer,
                                          ![sock].afterLast = "unsubscribe",
                                          ![sock].lastReply = "stats:unsubscribed",
                                          ![sock].message = "none"]
  /\ UNCHANGED <<role, container, containerLog, consoleOnly, unitOnly, routeOnly, subscribes>>

\* socket.on('disconnect') of the stats namespace: the timer is cleared, the
\* variable keeps its value
StatsDisconnect(sock) ==
  /\ statsSockets[sock].state = "open"
  /\ timers' = ClearExisting(timers, statsSockets[sock].statsInterval)
  /\ statsSockets' = [statsSockets EXCEPT ![sock].state = "closed"]
  /\ UNCHANGED <<role, container, containerLog, consoleOnly, unitOnly, routeOnly, subscribes>>

\* ------------------------------------------------------- stats computation
\* JavaScript values of the stats fields: a number, NaN, an infinity, undefined
Num(n) == [kind |-> "number", n |-> n]
NaN == [kind |-> "NaN", n |-> 0]
Infinity(sign) == [kind |-> "Infinity", n |-> sign]
Undefined == [kind |-> "undefined", n |-> 0]

\* v || 0
OrZero(v) == IF v.kind \in {"undefined", "NaN"} \/ v = Num(0) THEN Num(0) ELSE v

\* a - b
Minus(a, b) == IF a.kind = "number" /\ b.kind = "number" THEN Num(a.n - b.n) ELSE NaN

\* a > 0
Positive(a) == a.kind = "number" /\ a.n > 0

\* the nearest integer to p / q, for q > 0
Rounded(p, q) == (2 * p + q) \div (2 * q)

\* ((a / b) * factor * 100).toFixed(2), in hundredths; a division by zero
\* gives NaN or an infinity
PercentFixed(a, b, factor) ==
  IF a.kind # "number" \/ b.kind # "number" THEN NaN
  ELSE IF b.n = 0 THEN (IF a.n = 0 THEN NaN ELSE Infinity(IF a.n > 0 THEN 1 ELSE -1))
  ELSE IF b.n > 0 THEN Num(Rounded(a.n * factor * 10000, b.n))
  ELSE Num(Rounded((0 - a.n) * factor * 10000, 0 - b.n))

\* the divisor of a division the computation evaluates
Divisor(b) == IF b.kind = "number" THEN {b.n} ELSE {}

\* (0).toFixed(2)
ZeroFixed == Num(0)

NoSample == [taken |-> FALSE]
NoReport == [by |-> "none"]
NoMemory == [type |-> "none"]
NoBytes == [kind |-> "none", n |-> 0, e |-> 0]
UnitIdle ==
  /\ sample = NoSample /\ report = NoReport
  /\ accepted = << >> /\ history = << >>
  /\ server = "listening"
  /\ memoryArg = NoMemory /\ memoryBytes = NoBytes

\* values of the counters of a sample
UsageValues == {Num(0), Num(10), Num(30)}
SystemValues == {Undefined, Num(0), Num(100), Num(200)}
MemoryValues == {Undefined, Num(0), Num(50)}
LimitValues == {Undefined, Num(0), Num(100)}
CpuCounts == {Undefined, Num(2)}

Samples ==
  [ taken : {TRUE},
    total_usage : UsageValues,                \* cpu_stats.cpu_usage.total_usage
    pre_total_usage : UsageValues \cup {Undefined},  \* precpu_stats.cpu_usage?.total_usage
    system_cpu_usage : SystemValues,          \* cpu_stats.system_cpu_usage
    pre_system_cpu_usage : SystemValues,      \* precpu_stats.system_cpu_usage
    usage : MemoryValues,                     \* memory_stats.usage
    limit : LimitValues,                      \* memory_stats.limit
    online_cpus : CpuCounts ]                 \* cpu_stats.online_cpus

cpuDelta(stats) == Minus(stats.total_usage, OrZero(stats.pre_total_usage))
systemDelta(stats) == Minus(stats.system_cpu_usage, OrZero(stats.pre_system_cpu_usage))
memoryUsage(stats) == OrZero(stats.usage)
memoryLimit(stats) == OrZero(stats.limit)

\* memoryLimit > 0 ? (memoryUsage / memoryLimit) * 100 : 0, then toFixed(2)
memoryPercent(stats) ==
  IF Positive(memoryLimit(stats))
    THEN [value |-> PercentFixed(memoryUsage(stats), memoryLimit(stats), 1),
          divisors |-> Divisor(memoryLimit(stats))]
    ELSE [value |-> ZeroFixed, divisors |-> {}]

\* the CPU percentage with its guard left out
cpuPercentUnguarded(stats) ==
  [value |-> PercentFixed(cpuDelta(stats), systemDelta(stats), 1),
   divisors |-> Divisor(systemDelta(stats))]

\* systemDelta > 0 ? (cpuDelta / systemDelta) * 100 : 0, then toFixed(2)
cpuPercent(stats) ==
  IF Positive(systemDelta(stats))
    THEN [value |-> PercentFixed(cpuDelta(stats), systemDelta(stats), 1),
          divisors |-> Divisor(systemDelta(stats))]
    ELSE [value |-> ZeroFixed, divisors |-> {}]

\* calculateCPUPercent: (cpuDelta / systemDelta) * cpuCount * 100 when both
\* deltas are positive, else 0; then toFixed(2)
calculateCPUPercent(stats) ==
  IF Positive(systemDelta(stats)) /\ Positive(cpuDelta(stats))
    THEN [value |-> PercentFixed(cpuDelta(stats), systemDelta(stats),
                                 IF OrZero(stats.online_cpus) = Num(0) THEN 1
                                 ELSE stats.online_cpus.n),
          divisors |-> Divisor(systemDelta(stats))]
    ELSE [value |-> ZeroFixed, divisors |-> {}]

Report(by, cpu, memory) ==
  [by |-> by, cpu |-> cpu.value, percent |-> memory.value,
   divisors |-> cpu.divisors \cup memory.divisors]

\* container.stats({ stream: false }) resolves
TakeSample(stats) ==
  /\ sample = NoSample
  /\ sample' = stats
  /\ UNCHANGED <<role, container, containerLog, consoleOnly, routeOnly, statsOnly,
                 report, accepted, history, server, memoryArg, memoryBytes>>

\* ContainerManager.getContainerStats computes its result
getContainerStats ==
  /\ sample # NoSample /\ report = NoReport
  /\ report' = Report("getContainerStats", cpuPercent(sample), memoryPercent(sample))
  /\ UNCHANGED <<role, container, containerLog, consoleOnly, routeOnly, statsOnly,
                 sample, accepted, history, server, memoryArg, memoryBytes>>

\* the get-container-stats handler computes its container-stats message
GetContainerStatsWindows ==
  /\ sample # NoSample /\ report = NoReport
  /\ report' = Report("get-container-stats", calculateCPUPercent(sample), memoryPercent(sample))
  /\ UNCHANGED <<role, container, containerLog, consoleOnly, routeOnly, statsOnly,
                 sample, accepted, history, server, memoryArg, memoryBytes>>

\* ------------------------------------------------------------ memory setting
\* the characters of the memory strings: digits, unit letters in both cases,
\* a letter that is no unit, and U+212A KELVIN SIGN, whose lower case is "k"
MemoryChars == {"0", "1", "9", "b", "K", "m", "G", "x", "U+212A"}

\* the strings of at most MaxMemoryLen of these characters
MemoryStrings == UNION {[1..n -> MemoryChars] : n \in 0..MaxMemoryLen}

\* a byte count n * 1024^e, with n below 1024: the products reach 999 * 1024^3,
\* which is kept exact by keeping the power of 1024 apart
Times1024(n, e) == [kind |-> "number", n |-> n, e |-> IF n = 0 THEN 0 ELSE e]

\* the arguments of parseMemory: strings and numbers
MemoryArgs ==
  {[type |-> "string", text |-> t, value |-> NoBytes] : t \in MemoryStrings}
    \cup {[type |-> "number", text |-> << >>, value |-> v] :
            v \in {Times1024(0, 0), Times1024(512, 2), [kind |-> "NaN", n |-> 0, e |-> 0]}}

\* String.prototype.toLowerCase, character by character
toLowerCase(text) ==
  [i \in DOMAIN text |->
     CASE text[i] = "K" -> "k"
       [] text[i] = "G" -> "g"
       [] text[i] = "U+212A" -> "k"
       [] OTHER -> text[i]]

\* \d
IsDigit(ch) == ch \in {"0", "1", "9"}

\* the result of a failed String.prototype.match
NoMatch == [matched |-> FALSE, value |-> << >>, unit |-> ""]

\* text.match(/^(\d+)([bkmg]?)$/): the two groups, or null
match(text) ==
  LET n == Len(text)
      suffixed == n > 0 /\ text[n] \in {"b", "k", "m", "g"}
      digits == IF suffixed THEN SubSeq(text, 1, n - 1) ELSE text
  IN IF digits # << >> /\ \A i \in DOMAIN digits : IsDigit(digits[i])
       THEN [matched |-> TRUE, value |-> digits, unit |-> IF suffixed THEN text[n] ELSE ""]
       ELSE NoMatch

\* parseInt of a string of digits
RECURSIVE parseInt(_)
parseInt(digits) ==
  IF digits = << >> THEN 0
  ELSE LET last == digits[Len(digits)]
       IN 10 * parseInt(SubSeq(digits, 1, Len(digits) - 1))
            + (CASE last = "0" -> 0 [] last = "1" -> 1 [] last = "9" -> 9)

\* the units table, as the power of 1024
units(unit) == CASE unit = "b" -> 0 [] unit = "k" -> 1 [] unit = "m" -> 2 [] unit = "g" -> 3

\* return 512 * 1024 * 1024
DefaultMemory == Times1024(512, 2)

\* ContainerManager.parseMemory
parseMemory(memory) ==
  IF memory.type = "number" THEN memory.value
  ELSE LET m == match(toLowerCase(memory.text))
       IN IF ~m.matched THEN DefaultMemory
          ELSE Times1024(parseInt(m.value), units(IF m.unit = "" THEN "b" ELSE m.unit))

\* createContainer is given a configuration with this memory setting
Configure(memory) ==
  /\ memoryArg = NoMemory
  /\ memoryArg' = memory
  /\ UNCHANGED <<role, container, containerLog, consoleOnly, routeOnly, statsOnly,
                 sample, report, accepted, history, server, memoryBytes>>

\* HostConfig.Memory: this.parseMemory(memory)
ParseMemory ==
  /\ memoryArg # NoMemory /\ memoryBytes = NoBytes
  /\ memoryBytes' = parseMemory(memoryArg)
  /\ UNCHANGED <<role, container, containerLog, consoleOnly, routeOnly, statsOnly,
                 sample, report, accepted, history, server, memoryArg>>

\* ------------------------------------------------------------ console claims
SessionsOf(sock) == {s \in DOMAIN sessions : sessions[s].socket = sock}

\* a session whose exec stream is live: isActive with an undestroyed stream
LiveSession(s) == sessions[s].isActive /\ sessions[s].streamObj = "open"

\* the requester of session s is, by the datastore as it is now, neither the
\* owner of the session's container nor an administrator
NeitherOwnerNorAdmin(s) ==
  LET rec == container[sessions[s].containerId]
  IN role[sessions[s].userId] # "ADMIN" /\ rec.ownerId # sessions[s].userId

\* C1: for every connection, at most one Console session with a live exec
\* stream (isActive = true) exists at any instant, under any interleaving of
\* console:connect, console:disconnect, socket disconnect and the completion
\* of an in-flight start().
C1_AtMostOneLiveSession ==
  \A sock \in Sockets : Cardinality({s \in SessionsOf(sock) : LiveSession(s)}) <= 1

\* C2: once a connection has closed and every handler in flight for it has
\* finished, no Console session of the connection is active and no exec
\* stream opened for it remains undestroyed.
C2_ClosedConnectionHasNoLiveSession ==
  \A sock \in Sockets :
    (socketState[sock] = "closed" /\ \A s \in SessionsOf(sock) : sessions[s].pc = "done")
      => \A s \in SessionsOf(sock) :
           ~sessions[s].isActive /\ sessions[s].streamObj # "open"

\* C3: cleanup() is idempotent: a session on which cleanup() was invoked twice
\* (or more) has exactly one CONSOLE_DISCONNECT log row in total and is not in
\* the Session Registry.
C3_CleanupIdempotent ==
  \A s \in DOMAIN sessions :
    sessions[s].cleanups >= 2
      => /\ LogCount(LogRow(sessions[s].containerId, "CONSOLE_DISCONNECT", s)) = 1
         /\ activeSessions[sessions[s].socket] # s

\* C4: when the ownership check of start() is evaluated for a requester who
\* is neither the container's owner nor an administrator, the client gets a
\* console:error, execCommand is not called for the request, and the session
\* is left neither registered nor active; and a session that finished start()
\* without an exec call never becomes active, registered or attached later.
C4_DeniedAtCheck ==
  \A s \in DOMAIN sessions :
    (sessions[s].pc = "findUser" /\ sessions'[s].pc # "findUser" /\ NeitherOwnerNorAdmin(s))
      => /\ sessions'[s].errors = sessions[s].errors + 1
         /\ sessions'[s].execCalls = 0
         /\ sessions'[s].pc = "done"
         /\ ~sessions'[s].isActive
         /\ activeSessions'[sessions[s].socket] # s

C4_DeniedStaysOut ==
  \A s \in DOMAIN sessions :
    (sessions[s].pc = "done" /\ sessions[s].execCalls = 0)
      => /\ ~sessions[s].isActive
         /\ sessions[s].streamObj = "none"
         /\ activeSessions[sessions[s].socket] # s
         /\ sessions[s].errors >= 1

C4_NonOwnerRejected == [][C4_DeniedAtCheck]_vars /\ []C4_DeniedStaysOut

\* C4 witness: the member's request for the administrator's running
\* container has been refused: one console:error, no exec call, cleaned up
C4_Witness ==
  \E s \in DOMAIN sessions :
    /\ sessions[s].userId = "u1" /\ role["u1"] = "MEMBER"
    /\ sessions[s].containerId = 2
    /\ sessions[s].found = ContainerRecord("b", "u2", 2, "RUNNING")
    /\ sessions[s].pc = "done" /\ sessions[s].errors = 1
    /\ sessions[s].execCalls = 0 /\ sessions[s].cleanups = 1

\* C5: every write of a command or an input to the exec stream is made while
\* the requester is, at that moment, the container's owner or an
\* administrator (an ownership check evaluated at the moment of the engine
\* operation would refuse it otherwise).
C5_WriteChecked ==
  \A s \in DOMAIN sessions :
    Len(sessions'[s].streamIn) > Len(sessions[s].streamIn) => ~NeitherOwnerNorAdmin(s)

C5_EveryEngineOpChecked == [][C5_WriteChecked]_vars

\* the container session s asks for has, as persisted now, no record, no
\* engine id, or a status other than RUNNING
Unconnectable(s) ==
  LET rec == container[sessions[s].containerId]
  IN rec = NoRecord \/ rec.dockerId = NoId \/ rec.status # "RUNNING"

\* the step ends start() of s with console:error and nothing registered
RefusedNow(s) ==
  /\ sessions'[s].pc = "done"
  /\ sessions'[s].errors = sessions[s].errors + 1
  /\ sessions'[s].execCalls = 0
  /\ activeSessions'[sessions[s].socket] = NoSession

\* C15: a console:connect on a container that does not exist, has no engine
\* id or is not RUNNING is answered with console:error when start() reaches
\* its checks, execCommand is never called for it, and when start() has
\* finished no session is registered for the connection.
C15_RefusedAtCheck ==
  \A s \in DOMAIN sessions :
    (Unconnectable(s) /\ sessions[s].pc \in {"findContainer", "findUser"}
       /\ sessions'[s].pc # sessions[s].pc)
      => \/ RefusedNow(s)
         \/ /\ sessions[s].pc = "findContainer" /\ sessions'[s].pc = "findUser"
            /\ container[sessions[s].containerId] # NoRecord

C15_NoExec ==
  \A s \in DOMAIN sessions :
    Unconnectable(s) => /\ sessions[s].execCalls = 0
                        /\ ~sessions[s].isActive
                        /\ sessions[s].pc \in {"findContainer", "findUser", "done"}

C15_NotRunningRejected == [][C15_RefusedAtCheck]_vars /\ []C15_NoExec

\* C15 witness: the owner's request for their STOPPED container has been
\* refused: one console:error, no exec call, nothing registered
C15_Witness ==
  \E s \in DOMAIN sessions :
    /\ container[1] = ContainerRecord("a", "u1", 1, "STOPPED")
    /\ sessions[s].containerId = 1 /\ sessions[s].userId = "u1"
    /\ sessions[s].found = container[1]
    /\ sessions[s].pc = "done" /\ sessions[s].errors = 1
    /\ sessions[s].execCalls = 0
    /\ activeSessions[sessions[s].socket] = NoSession

ConnectRows(s) == LogCount(LogRow(sessions[s].containerId, "CONSOLE_CONNECT", s))

DisconnectRows(s) == LogCount(LogRow(sessions[s].containerId, "CONSOLE_DISCONNECT", s))

\* session s is CLOSED: inactive, no stream or exec handle, not in the registry
Closed(s) ==
  /\ ~sessions[s].isActive
  /\ ~sessions[s].stream /\ sessions[s].streamObj # "open"
  /\ ~sessions[s].dockerExec
  /\ activeSessions[sessions[s].socket] # s

\* C16: the step in which start() of a session fails (it ends without having
\* logged CONSOLE_CONNECT), be it in a check, in execCommand or after the
\* stream was attached, emits console:error and leaves the session CLOSED;
\* and a session whose start() failed stays CLOSED.
C16_ClosedAtFailure ==
  \A s \in DOMAIN sessions :
    (sessions[s].pc # "done" /\ sessions'[s].pc = "done" /\ ConnectRows(s)' = ConnectRows(s))
      => /\ sessions'[s].errors = sessions[s].errors + 1
         /\ Closed(s)'

C16_StaysClosed ==
  \A s \in DOMAIN sessions :
    (sessions[s].pc = "done" /\ ConnectRows(s) = 0) => Closed(s) /\ sessions[s].errors >= 1

C16_FailedStartCloses == [][C16_ClosedAtFailure]_vars /\ []C16_StaysClosed

\* C16 witness: start() failed after the stream was attached (the
\* CONSOLE_CONNECT write was rejected): the stream is destroyed
C16_Witness ==
  \E s \in DOMAIN sessions :
    /\ sessions[s].pc = "done" /\ sessions[s].connected = 1
    /\ sessions[s].errors = 1 /\ ConnectRows(s) = 0
    /\ sessions[s].streamObj = "destroyed" /\ sessions[s].cleanups = 1
    /\ Closed(s)

\* C17: the step in which start() completes with the exec stream attached
\* (CONSOLE_CONNECT logged, session active) leaves exactly one connected
\* notification, exactly one CONSOLE_CONNECT row, and the session registered
\* for its connection.
C17_ConnectedAtCompletion ==
  \A s \in DOMAIN sessions :
    (sessions[s].pc = "logConnect" /\ sessions'[s].pc = "done"
       /\ ConnectRows(s)' = ConnectRows(s) + 1 /\ sessions'[s].isActive)
      => /\ sessions'[s].connected = 1
         /\ ConnectRows(s)' = 1
         /\ activeSessions'[sessions[s].socket] = s

C17_ConnectRegistersSession == [][C17_ConnectedAtCompletion]_vars

\* C18: a session whose exec stream has emitted end has had cleanup() run
\* exactly once in its whole lifetime and has exactly one CONSOLE_DISCONNECT
\* row.
C18_StreamEndCleansUpOnce ==
  \A s \in DOMAIN sessions :
    sessions[s].disconnected >= 1 => sessions[s].cleanups = 1 /\ DisconnectRows(s) = 1

\* C37: cleanup() of a session removes from the Session Registry only that
\* session's own entry: when the connection's entry holds another, newer
\* session, that session is still registered after the older one's cleanup().
C37_CleanupStep ==
  \A s \in DOMAIN sessions :
    LET sock == sessions[s].socket
    IN (sessions'[s].cleanups = sessions[s].cleanups + 1 /\ activeSessions[sock] # s)
         => activeSessions'[sock] = activeSessions[sock]

C37_CleanupRemovesOwnEntryOnly == [][C37_CleanupStep]_vars

\* C24: for an active session the console:output messages emitted are the
\* data chunks received from the exec stream: one message per chunk, in the
\* same order, none dropped, merged or reordered.
C24_OutputFollowsChunks ==
  \A s \in DOMAIN sessions :
    sessions[s].outputs = [i \in 1..Len(sessions[s].streamOut) |-> toString(sessions[s].streamOut[i])]

C24_Witness ==
  \E s \in DOMAIN sessions :
    /\ sessions[s].isActive
    /\ sessions[s].streamOut = << <<"C3">>, <<"A9">> >>

\* the session registered for sock is active
ActiveOn(sock) ==
  /\ activeSessions[sock] # NoSession
  /\ sessions[activeSessions[sock]].isActive
  /\ sessions[activeSessions[sock]].stream

\* C26: sendCommand(text) on an active session writes exactly text followed
\* by one newline to the exec stream's input, once, appends exactly one
\* history entry whose command is text, and appends exactly one log entry
\* whose command is text cut to 1000 characters, with null output and null
\* exit code (the log write being accepted).
C26_SendCommandEffects ==
  [][\A sock \in Sockets, text \in LongCommands :
       ActiveOn(sock) /\ ConsoleCommand(sock, text, TRUE) =>
         LET s == activeSessions[sock]
         IN /\ sessions'[s].streamIn = Append(sessions[s].streamIn, text \o <<Run("LF", 1)>>)
            /\ sessions'[s].commandHistory = Append(sessions[s].commandHistory, text)
            /\ \E row \in BagToSet(containerLog') :
                 /\ containerLog' = containerLog (+) SetToBag({row})
                 /\ row.containerId = sessions[s].containerId
                 /\ row.command = substring(text, 1000)
                 /\ Length(row.command) <= 1000
                 /\ row.output = NULL /\ row.exitCode = NULL]_vars

C26_Witness ==
  \E s \in DOMAIN sessions :
    /\ sessions[s].streamIn = << <<Run("x", 1001), Run("LF", 1)>> >>
    /\ sessions[s].commandHistory = << <<Run("x", 1001)>> >>
    /\ LogCount(CommandRowWhole(sessions[s].containerId, <<Run("x", 1000)>>, s)) = 1

\* what has been written to the exec streams, and the histories
StreamInputs == [s \in DOMAIN sessions |-> sessions[s].streamIn]
Histories == [s \in DOMAIN sessions |-> sessions[s].commandHistory]

C29_InputPassedThrough ==
  [][\A sock \in Sockets, input \in LongCommands :
       ConsoleInput(sock, input) =>
         /\ Histories' = Histories
         /\ containerLog' = containerLog
         /\ IF ActiveOn(sock)
              THEN StreamInputs' = [StreamInputs EXCEPT ![activeSessions[sock]] = Append(@, input)]
              ELSE StreamInputs' = StreamInputs]_vars

C29_Witness ==
  \E s \in DOMAIN sessions :
    /\ sessions[s].isActive
    /\ sessions[s].streamIn = << <<Run("x", 1001)>> >>
    /\ sessions[s].commandHistory = << >>

\* the console:error notifications emitted on sock and by its sessions
ErrorsOn(sock) ==
  LET RECURSIVE sum(_)
      sum(i) == IF i = 0 THEN 0
                ELSE (IF sessions[i].socket = sock THEN sessions[i].errors ELSE 0) + sum(i - 1)
  IN sockErrors[sock] + sum(Len(sessions))

\* C30: a failing resize on an active session is recoverable: no error
\* notification is sent to the client, the session stays active and
\* registered, and later commands are still written to the same exec stream.
C30_ResizeFailureRecoverable ==
  [][\A sock \in Sockets :
       ActiveOn(sock) =>
         LET s == activeSessions[sock]
         IN /\ \A size \in Sizes :
                 (size.numbers /\ ConsoleResize(sock, size, FALSE)) =>
                   /\ ErrorsOn(sock)' = ErrorsOn(sock)
                   /\ ActiveOn(sock)'
                   /\ activeSessions'[sock] = s
                   /\ sessions'[s].streamObj = "open"
                   /\ sessions'[s].cleanups = sessions[s].cleanups
            /\ \A text \in LongCommands :
                 (sessions[s].resizeFailures # << >> /\ ConsoleCommand(sock, text, TRUE)) =>
                   sessions'[s].streamIn = Append(sessions[s].streamIn, Concat(text, Newline))]_vars

\* a command was written after a resize of the session had failed
C30_Witness ==
  \E sock \in Sockets :
    /\ ActiveOn(sock)
    /\ sessions[activeSessions[sock]].resizeFailures = <<0>>
    /\ sessions[activeSessions[sock]].streamObj = "open"
    /\ sessions[activeSessions[sock]].streamIn = <<Concat(Ls, Newline)>>

\* ------------------------------------------------------------ routes claims

\* the request in slot r has been answered
Answered(r, kind, code) ==
  requests[r].pc = "idle" /\ requests[r].kind = kind /\ requests[r].res = code

\* C6: a Create that failed after it had written its provisional record (the
\* engine createContainer call or the following record update failed, the
\* error was propagated as a 500) has deleted that record.
C6_FailedCreateDeletesRecord ==
  \A r \in Requests :
    (Answered(r, "create", 500) /\ requests[r].id # NoId) => container[requests[r].id] = NoRecord

\* C7: every container record whose status is RUNNING has a non-null engine
\* identifier.
C7_RunningHasDockerId ==
  \A c \in Records : container[c].status = "RUNNING" => container[c].dockerId # NoId

\* C7 witness: start was answered 200 for a record that is RUNNING with its
\* engine id, while a failed create has left a provisional record without one
C7_Witness ==
  /\ \E r \in Requests : /\ Answered(r, "start", 200)
                         /\ container[requests[r].id] # NoRecord
                         /\ container[requests[r].id].status = "RUNNING"
                         /\ container[requests[r].id].dockerId # NoId
  /\ \E c \in Records : container[c].dockerId = NoId

\* C8: a non-administrator owner never has more container records than the
\* per-member maximum.
C8_MemberWithinLimit ==
  \A u \in Users : role[u] # "ADMIN" => Cardinality(OwnedBy(u)) <= MaxContainersPerMember

\* C9: no two container records of the same owner have the same name.
C9_NameUniquePerOwner ==
  \A c1, c2 \in Records :
    (c1 # c2 /\ container[c1].ownerId = container[c2].ownerId)
      => container[c1].name # container[c2].name

\* a request that still holds the engine id d
InFlight(d) == \E r \in Requests : requests[r].pc # "idle" /\ requests[r].dockerId = d

\* C10: every engine object that exists and that no request in flight is
\* still working on is referenced by the dockerId of some container record.
C10_NoLeakedEngineObject ==
  \A d \in DockerIds :
    (Exists(d) /\ ~InFlight(d)) => \E c \in Records : container[c].dockerId = d

\* C19: a Remove that has found its record goes on to the record deletion
\* whether the engine removal succeeds, fails or is skipped, and when it
\* completes the record is absent (unless the datastore itself rejected the
\* delete call, answered 500).
C19_RemoveStep ==
  \A r \in Requests :
    LET req == requests[r]
    IN (req.kind \in DeleteKinds /\ requests'[r] # req /\ container[req.id] # NoRecord)
         => CASE req.pc = "find" -> requests'[r].pc \in {"engine", "record"}
              [] req.pc = "engine" -> requests'[r].pc = "record"
              [] req.pc = "record" ->
                   /\ requests'[r].pc = "idle"
                   /\ (requests'[r].res = 500 \/ container'[req.id] = NoRecord)
              [] OTHER -> TRUE

C19_RemoveDeletesRecord == [][C19_RemoveStep]_vars

\* C19 witness: a Remove was answered 200 and its record is gone although the
\* engine refused the removal: the engine object is still there
C19_Witness ==
  \E r \in Requests, d \in DockerIds :
    /\ Answered(r, "delete", 200)
    /\ container[requests[r].id] = NoRecord
    /\ engine[d] = "running"
    /\ \A c \in Records : container[c].dockerId # d

\* C33: for Start, Stop and Restart on a record with an engine identifier: when
\* the engine call succeeds the handler goes on to write status RUNNING (start,
\* restart) or STOPPED (stop) and then appends exactly one log row for the
\* action before it answers 200; when the engine call fails the request ends
\* there with status 500, the persisted record and the log unchanged.
C33_LifecycleStep ==
  \A r \in Requests :
    LET req == requests[r]
        after == requests'[r]
    IN (req.kind \in LifecycleKinds /\ after # req) =>
         CASE req.pc = "engine" ->
                /\ container' = container /\ containerLog' = containerLog
                /\ IF LifecycleEngine(r, TRUE) /\ EngineAccepts(req.kind, req.dockerId)
                     THEN after.pc = "status"
                     ELSE after.pc = "idle" /\ after.res = 500 /\ engine' = engine
           [] req.pc = "status" ->
                /\ containerLog' = containerLog
                /\ IF LifecycleUpdate(r, TRUE) /\ container[req.id] # NoRecord
                     THEN /\ after.pc = "log"
                          /\ container' = [container EXCEPT ![req.id].status =
                               IF req.kind = "stop" THEN "STOPPED" ELSE "RUNNING"]
                     ELSE after.pc = "idle" /\ after.res >= 400 /\ container' = container
           [] req.pc = "log" ->
                /\ container' = container
                /\ after.pc = "idle"
                /\ IF container[req.id] # NoRecord
                     THEN /\ after.res = 200
                          /\ containerLog' = containerLog (+) SetToBag(
                               {LogRow(req.id, IF req.kind = "start" THEN "START"
                                               ELSE IF req.kind = "stop" THEN "STOP"
                                               ELSE "RESTART", NoSession)})
                     ELSE after.res >= 400 /\ containerLog' = containerLog
           [] OTHER -> container' = container /\ containerLog' = containerLog

C33_LifecycleOutcome == [][C33_LifecycleStep]_vars

\* C33 witness: a Stop was answered 200: the engine object has exited, the
\* record is STOPPED and the log holds one STOP row for it
C33_Witness ==
  \E r \in Requests :
    /\ Answered(r, "stop", 200)
    /\ container[requests[r].id] # NoRecord
    /\ container[requests[r].id].status = "STOPPED"
    /\ engine[container[requests[r].id].dockerId] = "exited"
    /\ LogCount(LogRow(requests[r].id, "STOP", NoSession)) = 1
    /\ \A q \in Requests : requests[q].pc = "idle"

\* a request of user u for container c arrives in slot r on one of the routes
\* guarded by requireContainerOwnership
OwnershipGuarded(r, u, c) ==
  \/ StartRequest(r, u, c) \/ StopRequest(r, u, c) \/ RestartRequest(r, u, c)
  \/ StatsRequest(r, u, c) \/ DetailRequest(r, u, c)
  \/ \E force \in BOOLEAN : DeleteRequest(r, u, c, force)

\* C38: a member's start, stop, restart, stats, detail or delete request for
\* a container the member owns passes the ownership middleware and reaches the
\* route handler instead of being answered by the middleware.
C38_OwnerStep ==
  \A r \in Requests, u \in Users, c \in Records :
    (role[u] = "MEMBER" /\ container[c].ownerId = u /\ OwnershipGuarded(r, u, c))
      => requests'[r].pc # "idle"

C38_OwnerReachesHandler == [][C38_OwnerStep]_vars

\* C40: when a Start and a Stop of the same container have both been answered
\* 200 (both engine calls succeeded) and nothing else was requested, the
\* persisted status is the state the engine ended in: RUNNING if it is
\* running, STOPPED if it has stopped.
C40_StartStopConverges ==
  \A r1, r2 \in Requests :
    LET c == requests[r1].id
    IN (/\ Answered(r1, "start", 200) /\ Answered(r2, "stop", 200)
        /\ requests[r2].id = c /\ admitted = 2 /\ c \in Records)
         => container[c].status =
              (IF engine[container[c].dockerId] = "running" THEN "RUNNING" ELSE "STOPPED")

\* the routes that require an engine id
NeedDockerId == LifecycleKinds \cup {"stats"}

\* C20: Start, Stop, Restart and Stats whose lookup finds a record with no
\* engine id are answered with ValidationError (400) at once: no engine call
\* follows, and the records and the log are unchanged.
C20_NoEngineIdStep ==
  \A r \in Requests :
    LET req == requests[r]
    IN (/\ req.kind \in NeedDockerId /\ req.pc = "find" /\ requests'[r] # req
        /\ container[req.id] # NoRecord /\ container[req.id].dockerId = NoId)
         => /\ requests'[r].pc = "idle" /\ requests'[r].res = 400
            /\ engine' = engine
            /\ container' = container
            /\ containerLog' = containerLog

C20_NoEngineIdIsValidationError == [][C20_NoEngineIdStep]_vars

\* C20 witness: a request for a provisional record (left by a failed create)
\* was answered 400; the record is as it was and nothing is logged
C20_Witness ==
  \E r \in Requests :
    /\ requests[r].kind \in NeedDockerId /\ requests[r].pc = "idle" /\ requests[r].res = 400
    /\ container[requests[r].id] = ProvisionalRecord("a", "u1")
    /\ containerLog = EmptyBag
    /\ \E r2 \in Requests : Answered(r2, "create", 500)

\* the status enum of the container record
StatusEnum == {"CREATED", "RUNNING", "STOPPED", "ERROR"}

\* C21: in every reachable state the persisted status of every container
\* record is one of CREATED, RUNNING, STOPPED, ERROR; reconciliation never
\* stores an upper-cased engine status outside this enum.
C21_StatusInEnum == \A c \in Records : container[c].status \in StatusEnum

\* the routes that expose container records to a client
ReadKinds == {"list", "detail"} \cup ViewKinds

\* the containers with an engine id in the response of a completed read r
ExposedBy(r) ==
  IF requests[r].kind \in ReadKinds /\ requests[r].pc = "idle" /\ requests[r].res = 200
    THEN {b \in requests[r].body : b.dockerId # NoId}
    ELSE {}

\* C25: every read path that exposes a container record with an engine id
\* (list, detail, member and admin views) first fetches the engine's live
\* state, and the status it returns is the engine-reported one whenever the
\* inspect succeeded.
C25_ReadsReconcile ==
  \A r \in Requests : \A b \in ExposedBy(r) :
    /\ b.asked
    /\ b.live # NULL => b.status = b.live

\* the status each container of a response carries
Carried(body) == {<<b.id, b.status>> : b \in body}

\* C34: a reconciliation failure (the engine inspect or stats fetch fails, or
\* the status update fails) never fails the read and never changes the
\* persisted status: the request goes on to its 200 response, which carries for
\* that container the status the handler had read from the datastore.
C34_SyncStep ==
  \A r \in Requests :
    LET req == requests[r]
        after == requests'[r]
    IN (req.pc = "sync" /\ after # req) =>
         /\ after.pc = "sync" \/ (after.pc = "idle" /\ after.res = 200)
         /\ {b.id : b \in after.body} = {b.id : b \in req.body}
         /\ \A d \in req.todo :
              (d \notin after.todo /\ after.seen = req.seen) =>
                 container' = container /\ Carried(after.body) = Carried(req.body)
         /\ \A d \in DockerIds, st \in Statuses :
              SyncUpdate(r, d, st, FALSE) =>
                 container' = container /\ Carried(after.body) = Carried(req.body)

C34_SyncFailureSwallowed == [][C34_SyncStep]_vars

\* C34 witness: a detail read was answered 200 after the engine had reported
\* EXITED and the update had failed: the record and the response are RUNNING
C34_Witness ==
  \E r \in Requests : \E b \in requests[r].body :
    /\ Answered(r, "detail", 200)
    /\ b.asked /\ b.live = "EXITED" /\ b.status = "RUNNING"
    /\ container[b.id] # NoRecord /\ container[b.id].status = "RUNNING"
    /\ container[b.id].dockerId = b.dockerId

\* record c is in ERROR and this step gives it another status
LeavesError(c) ==
  /\ container[c] # NoRecord /\ container[c].status = "ERROR"
  /\ container'[c] # NoRecord /\ container'[c].status # "ERROR"

\* the step is the status write of an operator's start, stop or restart of c
OperatorWrite(c) ==
  \E r \in Requests : /\ requests[r].kind \in LifecycleKinds
                      /\ requests[r].id = c
                      /\ requests[r].pc = "status"
                      /\ requests'[r].pc # "status"

C23_NoDivisionByZero ==
  report # NoReport =>
    /\ 0 \notin report.divisors
    /\ (systemDelta(sample).kind = "number" /\ systemDelta(sample).n <= 0) => report.cpu = Num(0)
    /\ (memoryLimit(sample).n <= 0) => report.percent = Num(0)

C23_Witness ==
  /\ report # NoReport
  /\ systemDelta(sample) = Num(0)
  /\ cpuDelta(sample).n > 0
  /\ memoryLimit(sample) = Num(0)
  /\ memoryUsage(sample).n > 0

\* C28: a session's command history holds at most 100 entries, and after
\* n > 100 accepted commands it holds exactly the last 100 of them in the
\* order sent (the oldest are evicted first).
C28_HistoryIsLastHundred ==
  /\ Len(history) <= 100
  /\ Len(accepted) <= 100 => history = accepted
  /\ Len(accepted) > 100 =>
       history = [i \in 1..100 |-> accepted[Len(accepted) - 100 + i]]

C28_Witness ==
  /\ Len(accepted) = 103
  /\ Len(history) = 100
  /\ history[1] = accepted[4]
  /\ history[100] = accepted[103]

\* the shutdown sequence has run to its process.exit
ShutDown == server \in {"exit 0", "exit 1"}

\* C35: once the shutdown sequence has run, the Session Registry is empty and
\* every Console session is inactive with its exec stream destroyed.
C35_ShutdownCleansSessions ==
  ShutDown =>
    /\ \A sock \in Sockets : activeSessions[sock] = NoSession
    /\ \A s \in DOMAIN sessions : ~sessions[s].isActive /\ sessions[s].streamObj # "open"

\* C39: no message on the console or stats channel makes a handler fail with
\* an error that ends the service process.
C39_NoHandlerCrash == server # "unhandledRejection"

\* the number a string of the digits 0, 1, 9 denotes
RECURSIVE Decimal(_)
Decimal(digits) ==
  IF digits = << >> THEN 0
  ELSE 10 * Decimal(SubSeq(digits, 1, Len(digits) - 1))
         + (IF digits[Len(digits)] = "0" THEN 0 ELSE IF digits[Len(digits)] = "1" THEN 1 ELSE 9)

AllDigits(text) == text # << >> /\ \A i \in DOMAIN text : text[i] \in {"0", "1", "9"}

\* what a memory string is to be mapped to when the unit letters are `letters`
\* (letter -> power of 1024): digits alone are bytes, digits and a unit letter
\* are scaled, every other string is 512 MiB
ByForm(text, letters) ==
  LET n == Len(text)
  IN IF AllDigits(text) THEN Times1024(Decimal(text), 0)
     ELSE IF n > 1 /\ text[n] \in DOMAIN letters /\ AllDigits(SubSeq(text, 1, n - 1))
       THEN Times1024(Decimal(SubSeq(text, 1, n - 1)), letters[text[n]])
     ELSE Times1024(512, 2)

\* b, k, m, g in either case
UnitLetters ==
  [ch \in {"b", "B", "k", "K", "m", "M", "g", "G"} |->
     CASE ch \in {"b", "B"} -> 0 [] ch \in {"k", "K"} -> 1
       [] ch \in {"m", "M"} -> 2 [] ch \in {"g", "G"} -> 3]

\* the characters whose toLowerCase() is b, k, m or g: also U+212A
UnitLettersLowered ==
  [ch \in DOMAIN UnitLetters \cup {"U+212A"} |->
     IF ch = "U+212A" THEN 1 ELSE UnitLetters[ch]]

Parsed == memoryArg # NoMemory /\ memoryBytes # NoBytes

\* C36 as stated: parseMemory maps every string of digits with an optional b,
\* k, m or g suffix (either case) to value * 1, 1024, 1024^2, 1024^3, returns a
\* number argument unchanged, and returns 512 * 1024 * 1024 for every other
\* string.
C36_ParseMemoryForm ==
  Parsed =>
    memoryBytes = IF memoryArg.type = "number" THEN memoryArg.value
                  ELSE ByForm(memoryArg.text, UnitLetters)

\* C36, for comparison: the same with the suffix being any character whose
\* lower case is b, k, m or g, which besides the eight letters is U+212A
\* KELVIN SIGN (counted as k); this is what parseMemory computes.
C36_ParseMemoryLowered ==
  Parsed =>
    memoryBytes = IF memoryArg.type = "number" THEN memoryArg.value
                  ELSE ByForm(memoryArg.text, UnitLettersLowered)

\* ------------------------------------------------------------ stats claims
ActiveTimers(sock) == {t \in DOMAIN timers : timers[t].sock = sock /\ timers[t].active}

\* C11: for every stats connection at most one polling timer is active at any
\* instant, whatever the interleaving of its stats:subscribe handlers.
C11_AtMostOneTimer ==
  \A sock \in StatsSockets : Cardinality(ActiveTimers(sock)) <= 1

\* C11 witness: a second accepted subscription has replaced the first one's
\* timer on an open connection
C11_Witness ==
  \E sock \in StatsSockets :
    /\ statsSockets[sock].state = "open"
    /\ Len(timers) = 2 /\ timers[1].sock = sock /\ timers[2].sock = sock
    /\ ~timers[1].active /\ timers[2].active
    /\ statsSockets[sock].statsInterval = 2
    /\ subscribes = << >>

\* C12: after a stats connection has closed, or after stats:unsubscribe was
\* handled with no stats:subscribe received since, no polling timer of that
\* connection is active, and no timer of it issues an engine stats fetch.
C12_Stopped(sock) ==
  statsSockets[sock].state = "closed" \/ statsSockets[sock].afterLast = "unsubscribe"

C12_NoTimerWhenStopped ==
  \A sock \in StatsSockets : C12_Stopped(sock) => ActiveTimers(sock) = {}

C12_NoFetchWhenStopped ==
  \A t \in DOMAIN timers :
    timers'[t].fetches > timers[t].fetches => ~C12_Stopped(timers[t].sock)

C12_CancelledForGood == []C12_NoTimerWhenStopped /\ [][C12_NoFetchWhenStopped]_vars

\* C13: the interval acknowledged in stats:subscribed equals the period of
\* the timer installed for that subscription.
C13_AckIsClampedInterval ==
  \A t \in DOMAIN timers : timers[t].acked = timers[t].period

\* C14: the period of the installed timer is min(10000, max(1000, interval))
\* for the interval requested, lies in [1000, 10000], and is 2000 when no
\* interval was given.
C14_PeriodClamped ==
  \A t \in DOMAIN timers :
    /\ timers[t].given =>
         timers[t].period =
           (IF timers[t].requested < 1000 THEN 1000
            ELSE IF timers[t].requested > 10000 THEN 10000 ELSE timers[t].requested)
    /\ timers[t].period >= 1000 /\ timers[t].period <= 10000
    /\ ~timers[t].given => timers[t].period = 2000

\* C14 witness: one timer installed for a request below the lower limit, one
\* for a request with no interval
C14_Witness ==
  \E t1, t2 \in DOMAIN timers :
    /\ timers[t1].given /\ timers[t1].requested = 500 /\ timers[t1].period = 1000
    /\ ~timers[t2].given /\ timers[t2].period = 2000

\* C31: when a stats fetch fails on a tick, the client is sent stats:error and
\* the timer stays installed and active, so that it keeps ticking; a fetch
\* that succeeds after a failed one emits stats:data.
C31_FailedFetchStep ==
  \A t \in DOMAIN timers :
    StatsFetchDone(t, FALSE) =>
      LET sock == timers[t].sock
      IN /\ statsSockets'[sock].lastReply = "stats:error"
         /\ timers'[t].emitted = Append(timers[t].emitted, "stats:error")
         /\ timers'[t].active = timers[t].active
         /\ statsSockets'[sock].statsInterval = statsSockets[sock].statsInterval

C31_LaterFetchStep ==
  \A t \in DOMAIN timers :
    (StatsFetchDone(t, TRUE) /\ \E i \in DOMAIN timers[t].emitted :
                                  timers[t].emitted[i] = "stats:error") =>
      /\ statsSockets'[timers[t].sock].lastReply = "stats:data"
      /\ timers'[t].emitted = Append(timers[t].emitted, "stats:data")

C31_FetchFailureKeepsTimer == [][C31_FailedFetchStep /\ C31_LaterFetchStep]_vars

\* C31 witness: a timer's first fetch failed, it ticked again and the second
\* fetch delivered stats:data, the timer being still the connection's own
C31_Witness ==
  \E t \in DOMAIN timers :
    /\ timers[t].emitted = <<"stats:error", "stats:data">>
    /\ timers[t].active /\ timers[t].fetches = 2
    /\ statsSockets[timers[t].sock].statsInterval = t
    /\ statsSockets[timers[t].sock].lastReply = "stats:data"

\* the checks of a stats:subscribe, as the handler is to apply them to the
\* record it read
FailsChecks(sub) ==
  LET found == container[sub.containerId]
      user == statsSockets[sub.sock].user
  IN \/ found = NoRecord
     \/ user.role # "ADMIN" /\ found.ownerId # user.id
     \/ found.dockerId = NoId
     \/ found.status # "RUNNING"

\* C32: a stats:subscribe that fails a check (no container id, unknown
\* container, requester neither owner nor administrator, no engine identifier,
\* persisted status not RUNNING) installs no timer, is answered with
\* stats:error and not with stats:subscribed.
C32_NoIdStep ==
  \A sock \in StatsSockets, data \in StatsPayloads :
    (data.containerId = NoId /\ StatsSubscribe(sock, data)) =>
      /\ timers' = timers
      /\ subscribes' = subscribes
      /\ statsSockets'[sock].statsInterval = statsSockets[sock].statsInterval
      /\ statsSockets'[sock].lastReply = "stats:error"

C32_RefusedStep ==
  \A i \in DOMAIN subscribes :
    (subscribes' = RemoveAt(subscribes, i) /\ FailsChecks(subscribes[i])) =>
      LET sock == subscribes[i].sock
      IN /\ timers' = timers
         /\ statsSockets'[sock].statsInterval = statsSockets[sock].statsInterval
         /\ statsSockets'[sock].lastReply = "stats:error"

C32_FailedSubscribeInstallsNothing == [][C32_NoIdStep /\ C32_RefusedStep]_vars

\* C32 witness: the owner's subscription to a container that is not RUNNING
\* was refused with "Container is not running" and no timer exists
C32_Witness ==
  \E sock \in StatsSockets :
    /\ statsSockets[sock].received = 1
    /\ statsSockets[sock].user.id = "u1"
    /\ container[1] = ContainerRecord("a", "u1", 1, "STOPPED")
    /\ statsSockets[sock].lastReply = "stats:error"
    /\ statsSockets[sock].message = "Container is not running"
    /\ statsSockets[sock].statsInterval = NoTimer
    /\ timers = << >> /\ subscribes = << >>

\* ------------------------------------------------------------ specifications
InitConsole ==
  /\ role = [u \in Users |-> IF u = "u2" THEN "ADMIN" ELSE "MEMBER"]
  /\ \E c1 \in ConsoleContainerStates :
       container = [c \in ContainerIds |->
                      IF c = 1 THEN c1
                      ELSE IF c = 2 THEN ContainerRecord("b", "u2", 2, "RUNNING")
                      ELSE NoRecord]
  /\ containerLog = EmptyBag
  /\ socketState = [sock \in Sockets |-> "new"]
  /\ socketUser = [sock \in Sockets |-> [id |-> NULL, role |-> NULL]]
  /\ activeSessions = [sock \in Sockets |-> NoSession]
  /\ sessions = << >>
  /\ sockErrors = [sock \in Sockets |-> 0]
  /\ engine = [d \in DockerIds |-> "absent"]
  /\ requests = [r \in Requests |-> IdleRequest]
  /\ inserted = 0
  /\ admitted = 0
  /\ statsSockets = [sock \in StatsSockets |-> NewStatsSocket]
  /\ timers = << >>
  /\ subscribes = << >>
  /\ UnitIdle

NextConsole ==
  \/ \E sock \in Sockets, u \in Users : Handshake(sock, u)
  \/ \E sock \in Sockets, c \in ContainerIds \cup {NoId} : ConsoleConnect(sock, c)
  \/ \E s \in 1..MaxSessions, ok \in BOOLEAN : StartFindContainer(s, ok)
  \/ \E s \in 1..MaxSessions, ok \in BOOLEAN : StartFindUser(s, ok)
  \/ \E s \in 1..MaxSessions, ok \in BOOLEAN : StartExec(s, ok)
  \/ \E s \in 1..MaxSessions, ok \in BOOLEAN : StartLogConnect(s, ok)
  \/ \E sock \in Sockets : ConsoleDisconnect(sock)
  \/ \E sock \in Sockets : SocketDisconnect(sock)
  \/ \E s \in 1..MaxSessions : StreamEnd(s)
  \/ \E s \in 1..MaxSessions : StreamError(s)
  \/ \E sock \in Sockets, c \in Commands \cup {NotAString}, ok \in BOOLEAN : ConsoleCommand(sock, c, ok)
  \/ \E sock \in Sockets, c \in Commands \cup {NotAString} : ConsoleInput(sock, c)
  \/ \E u \in Users, r \in Roles : AdminUpdateUser(u, r)

SpecConsole == InitConsole /\ [][NextConsole]_vars

Init ==
  /\ role = [u \in Users |-> IF u = "u2" THEN "ADMIN" ELSE "MEMBER"]
  /\ container = [c \in ContainerIds |-> NoRecord]
  /\ containerLog = EmptyBag
  /\ socketState = [sock \in Sockets |-> "new"]
  /\ socketUser = [sock \in Sockets |-> [id |-> NULL, role |-> NULL]]
  /\ activeSessions = [sock \in Sockets |-> NoSession]
  /\ sessions = << >>
  /\ sockErrors = [sock \in Sockets |-> 0]
  /\ engine = [d \in DockerIds |-> "absent"]
  /\ requests = [r \in Requests |-> IdleRequest]
  /\ inserted = 0
  /\ admitted = 0
  /\ statsSockets = [sock \in StatsSockets |-> NewStatsSocket]
  /\ timers = << >>
  /\ subscribes = << >>
  /\ UnitIdle

Next ==
  \/ \E r \in Requests, u \in Users, n \in Names : CreateRequest(r, u, n)
  \/ \E r \in Requests : CreateCheckLimit(r)
  \/ \E r \in Requests : CreateCheckName(r)
  \/ \E r \in Requests, ok \in BOOLEAN : CreateInsert(r, ok)
  \/ \E r \in Requests, ok \in BOOLEAN : CreateEngine(r, ok)
  \/ \E r \in Requests, ok \in BOOLEAN : CreateLink(r, ok)
  \/ \E r \in Requests, u \in Users, c \in ContainerIds, n \in Names : RenameRequest(r, u, c, n)
  \/ \E r \in Requests : RenameCheckName(r)
  \/ \E r \in Requests : RenameUpdate(r)
  \/ \E r \in Requests, u \in Users, c \in ContainerIds : StartRequest(r, u, c)
  \/ \E r \in Requests, u \in Users, c \in ContainerIds : StopRequest(r, u, c)
  \/ \E r \in Requests, u \in Users, c \in ContainerIds : RestartRequest(r, u, c)
  \/ \E r \in Requests : LifecycleFind(r)
  \/ \E r \in Requests, ok \in BOOLEAN : LifecycleEngine(r, ok)
  \/ \E r \in Requests, ok \in BOOLEAN : LifecycleUpdate(r, ok)
  \/ \E r \in Requests : LifecycleLog(r)
  \/ \E r \in Requests, u \in Users, c \in ContainerIds, f \in BOOLEAN : DeleteRequest(r, u, c, f)
  \/ \E r \in Requests, u \in Users, c \in ContainerIds : AdminDeleteRequest(r, u, c)
  \/ \E r \in Requests : DeleteFind(r)
  \/ \E r \in Requests, ok \in BOOLEAN : DeleteEngine(r, ok)
  \/ \E r \in Requests, ok \in BOOLEAN : DeleteRecord(r, ok)
  \/ \E r \in Requests, u \in Users : ListRequest(r, u)
  \/ \E r \in Requests, u \in Users, c \in ContainerIds : DetailRequest(r, u, c)
  \/ \E r \in Requests : ListFind(r)
  \/ \E r \in Requests : DetailFind(r)
  \/ \E r \in Requests, d \in DockerIds, ok \in BOOLEAN : SyncInspect(r, d, ok)
  \/ \E r \in Requests, d \in DockerIds, st \in Statuses, dbOk \in BOOLEAN : SyncUpdate(r, d, st, dbOk)
  \/ \E r \in Requests, u \in Users, c \in ContainerIds : StatsRequest(r, u, c)
  \/ \E r \in Requests : StatsFind(r)
  \/ \E r \in Requests, ok \in BOOLEAN : StatsFetch(r, ok)
  \/ \E r \in Requests, u \in Users : AdminContainersRequest(r, u)
  \/ \E r \in Requests, u \in Users : MemberContainersRequest(r, u)
  \/ \E r \in Requests, u \in Users, c \in ContainerIds : MemberContainerRequest(r, u, c)
  \/ \E r \in Requests : ViewFind(r)
  \/ \E d \in DockerIds : EngineExit(d)

Spec == Init /\ [][Next]_vars

InitStats == InitConsole

NextStats ==
  \/ \E sock \in StatsSockets, u \in Users : StatsHandshake(sock, u)
  \/ \E sock \in StatsSockets, data \in StatsPayloads : StatsSubscribe(sock, data)
  \/ \E i \in 1..MaxSubscribes, ok \in BOOLEAN : StatsSubscribeLookup(i, ok)
  \/ \E t \in 1..MaxSubscribes : StatsTick(t)
  \/ \E t \in 1..MaxSubscribes, ok \in BOOLEAN : StatsFetchDone(t, ok)
  \/ \E sock \in StatsSockets : StatsUnsubscribe(sock)
  \/ \E sock \in StatsSockets : StatsDisconnect(sock)

SpecStats == InitStats /\ [][NextStats]_vars

\* a datastore that already holds one linked record, in any status of the
\* enum, with its engine object in any state
InitPersisted ==
  /\ role = [u \in Users |-> IF u = "u2" THEN "ADMIN" ELSE "MEMBER"]
  /\ \E st \in StatusEnum :
       container = [c \in ContainerIds |->
                      IF c = 1 THEN ContainerRecord("a", "u1", 1, st) ELSE NoRecord]
  /\ containerLog = EmptyBag
  /\ socketState = [sock \in Sockets |-> "new"]
  /\ socketUser = [sock \in Sockets |-> [id |-> NULL, role |-> NULL]]
  /\ activeSessions = [sock \in Sockets |-> NoSession]
  /\ sessions = << >>
  /\ sockErrors = [sock \in Sockets |-> 0]
  /\ \E st \in {"created", "running", "exited"} :
       engine = [d \in DockerIds |-> IF d = 1 THEN st ELSE "absent"]
  /\ requests = [r \in Requests |-> IdleRequest]
  /\ inserted = 1
  /\ admitted = 0
  /\ statsSockets = [sock \in StatsSockets |-> NewStatsSocket]
  /\ timers = << >>
  /\ subscribes = << >>
  /\ UnitIdle

NextPersisted ==
  \/ \E r \in Requests, u \in Users, c \in ContainerIds : StartRequest(r, u, c)
  \/ \E r \in Requests, u \in Users, c \in ContainerIds : StopRequest(r, u, c)
  \/ \E r \in Requests, u \in Users, c \in ContainerIds : RestartRequest(r, u, c)
  \/ \E r \in Requests : LifecycleFind(r)
  \/ \E r \in Requests, ok \in BOOLEAN : LifecycleEngine(r, ok)
  \/ \E r \in Requests, ok \in BOOLEAN : LifecycleUpdate(r, ok)
  \/ \E r \in Requests : LifecycleLog(r)
  \/ \E r \in Requests, u \in Users : ListRequest(r, u)
  \/ \E r \in Requests, u \in Users, c \in ContainerIds : DetailRequest(r, u, c)
  \/ \E r \in Requests : ListFind(r)
  \/ \E r \in Requests : DetailFind(r)
  \/ \E r \in Requests, d \in DockerIds, ok \in BOOLEAN : SyncInspect(r, d, ok)
  \/ \E r \in Requests, d \in DockerIds, st \in Statuses, dbOk \in BOOLEAN : SyncUpdate(r, d, st, dbOk)
  \/ \E r \in Requests, u \in Users : AdminContainersRequest(r, u)
  \/ \E r \in Requests, u \in Users : MemberContainersRequest(r, u)
  \/ \E r \in Requests, u \in Users, c \in ContainerIds : MemberContainerRequest(r, u, c)
  \/ \E r \in Requests : ViewFind(r)
  \/ \E d \in DockerIds : EngineExit(d)

SpecPersisted == InitPersisted /\ [][NextPersisted]_vars

InitSamples == Init

NextSamples ==
  \/ \E stats \in Samples : TakeSample(stats)
  \/ getContainerStats
  \/ GetContainerStatsWindows

SpecSamples == InitSamples /\ [][NextSamples]_vars

NextStream ==
  \/ \E sock \in Sockets, u \in Users : Handshake(sock, u)
  \/ \E sock \in Sockets, c \in ContainerIds \cup {NoId} : ConsoleConnect(sock, c)
  \/ \E s \in 1..MaxSessions, ok \in BOOLEAN : StartFindContainer(s, ok)
  \/ \E s \in 1..MaxSessions, ok \in BOOLEAN : StartFindUser(s, ok)
  \/ \E s \in 1..MaxSessions, ok \in BOOLEAN : StartExec(s, ok)
  \/ \E s \in 1..MaxSessions, ok \in BOOLEAN : StartLogConnect(s, ok)
  \/ \E s \in 1..MaxSessions, chunk \in Chunks : StreamData(s, chunk)
  \/ \E sock \in Sockets : ConsoleDisconnect(sock)
  \/ \E sock \in Sockets : SocketDisconnect(sock)
  \/ \E s \in 1..MaxSessions : StreamEnd(s)

SpecStream == InitConsole /\ [][NextStream]_vars

NextCommands ==
  \/ \E sock \in Sockets, u \in Users : Handshake(sock, u)
  \/ \E sock \in Sockets, c \in ContainerIds : ConsoleConnect(sock, c)
  \/ \E s \in 1..MaxSessions, ok \in BOOLEAN : StartFindContainer(s, ok)
  \/ \E s \in 1..MaxSessions, ok \in BOOLEAN : StartFindUser(s, ok)
  \/ \E s \in 1..MaxSessions, ok \in BOOLEAN : StartExec(s, ok)
  \/ \E s \in 1..MaxSessions, ok \in BOOLEAN : StartLogConnect(s, ok)
  \/ \E sock \in Sockets : SocketDisconnect(sock)
  \/ \E sock \in Sockets : ConsoleDisconnect(sock)
  \/ \E s \in 1..MaxSessions : StreamEnd(s)
  \/ \E sock \in Sockets, c \in LongCommands \cup {NotAString}, ok \in BOOLEAN : ConsoleCommand(sock, c, ok)
  \/ \E sock \in Sockets, c \in LongCommands \cup {NotAString} : ConsoleInput(sock, c)

SpecCommands == InitConsole /\ [][NextCommands]_vars

NextHistory == \E command \in NextCommand(Len(accepted)) : PushCommand(command)

SpecHistory == Init /\ [][NextHistory]_vars

NextResize ==
  \/ \E sock \in Sockets, u \in Users : Handshake(sock, u)
  \/ \E sock \in Sockets, c \in ContainerIds : ConsoleConnect(sock, c)
  \/ \E s \in 1..MaxSessions, ok \in BOOLEAN : StartFindContainer(s, ok)
  \/ \E s \in 1..MaxSessions, ok \in BOOLEAN : StartFindUser(s, ok)
  \/ \E s \in 1..MaxSessions, ok \in BOOLEAN : StartExec(s, ok)
  \/ \E s \in 1..MaxSessions, ok \in BOOLEAN : StartLogConnect(s, ok)
  \/ \E sock \in Sockets : ConsoleDisconnect(sock)
  \/ \E sock \in Sockets : SocketDisconnect(sock)
  \/ \E sock \in Sockets, c \in Commands, ok \in BOOLEAN : ConsoleCommand(sock, c, ok)
  \/ \E sock \in Sockets, size \in Sizes, ok \in BOOLEAN : ConsoleResize(sock, size, ok)

SpecResize == InitConsole /\ [][NextResize]_vars

NextProcess ==
  \/ \E sock \in Sockets, u \in Users : server = "listening" /\ Handshake(sock, u)
  \/ \E sock \in Sockets, c \in ContainerIds : Serving /\ ConsoleConnect(sock, c)
  \/ \E s \in 1..MaxSessions, ok \in BOOLEAN : Serving /\ StartFindContainer(s, ok)
  \/ \E s \in 1..MaxSessions, ok \in BOOLEAN : Serving /\ StartFindUser(s, ok)
  \/ \E s \in 1..MaxSessions, ok \in BOOLEAN : Serving /\ StartExec(s, ok)
  \/ \E s \in 1..MaxSessions, ok \in BOOLEAN : Serving /\ StartLogConnect(s, ok)
  \/ \E sock \in Sockets : Serving /\ ConsoleDisconnect(sock)
  \/ \E sock \in Sockets : Serving /\ SocketDisconnect(sock)
  \/ \E s \in 1..MaxSessions : Serving /\ StreamEnd(s)
  \/ \E sock \in Sockets, event \in BareEvents : ConsoleNoPayload(sock, event)
  \/ gracefulShutdown
  \/ ServerClosed
  \/ ForceExit

SpecProcess == InitConsole /\ [][NextProcess]_vars

NextMemory ==
  \/ \E memory \in MemoryArgs : Configure(memory)
  \/ ParseMemory

SpecMemory == Init /\ [][NextMemory]_vars

NextStartStop ==
  \/ \E r \in Requests, u \in Users, c \in ContainerIds : StartRequest(r, u, c)
  \/ \E r \in Requests, u \in Users, c \in ContainerIds : StopRequest(r, u, c)
  \/ \E r \in Requests : LifecycleFind(r)
  \/ \E r \in Requests, ok \in BOOLEAN : LifecycleEngine(r, ok)
  \/ \E r \in Requests, ok \in BOOLEAN : LifecycleUpdate(r, ok)
  \/ \E r \in Requests : LifecycleLog(r)

SpecStartStop == InitPersisted /\ [][NextStartStop]_vars

====
